---- MODULE Spec2Model ----
(***************************************************************************)
(* Model of the swarm worker pool (worker-pool.ts: Semaphore,              *)
(* processAllBatches) over batches produced by splitIntoBatches            *)
(* (batch-splitter.ts).  One batch task per batch; the JavaScript event    *)
(* loop runs each continuation to its next await, so every action below is *)
(* one such run-to-completion step.                                        *)
(***************************************************************************)
EXTENDS Integers, Sequences, FiniteSets, TLC

(* ---------- bounds of the model ---------- *)
MaxItems == 3
MaxBatchSize == 2
MaxConcurrency == 2
MaxSplitLen == 5
MaxSplitSize == 3
MaxGroups == 3
MaxStack == 6
SmallFanin == 2

(* ---------- program constants (SWARM_DEFAULTS) ---------- *)
concurrency_default == 5
batch_size_default == 25
max_retries == 2
hierarchical_reduce_fanin == 20
summarize_token_limit == 150000
backoff_base_ms == 2000

(* ---------- value domains ---------- *)
Undefined == "undefined"
(* message invokeAgent rejects with: one per attempt, so that the messages *)
(* of a batch's attempts are told apart                                    *)
WorkerError(attempt) ==
    CASE attempt = 0 -> "e0"
      [] attempt = 1 -> "e1"
      [] OTHER -> "e2"

Errors == {WorkerError(a) : a \in 0..max_retries}
Outputs == {"out"}
Terminal == {"completed", "failed"}

Min(a, b) == IF a < b THEN a ELSE b

RECURSIVE Pow2(_)
Pow2(n) == IF n <= 0 THEN 1 ELSE 2 * Pow2(n - 1)

(* items "x1".."xL" of the input list *)
ItemList(L) == [k \in 1..L |-> k]

(* ---------- batch-splitter.ts: splitIntoBatches ---------- *)
NewBatch(idx, its) ==
    [index |-> idx, items |-> its, status |-> "pending", retries |-> 0,
     result |-> Undefined, error |-> Undefined]

RECURSIVE SplitLoopDropsPartial(_, _, _, _)
SplitLoopDropsPartial(its, size, i, acc) ==
    IF i + size <= Len(its)
    THEN SplitLoopDropsPartial(its, size, i + size,
                               Append(acc, NewBatch(Len(acc), SubSeq(its, i + 1, i + size))))
    ELSE acc

RECURSIVE SplitLoop(_, _, _, _)
SplitLoop(its, size, i, acc) ==
    IF i < Len(its)
    THEN SplitLoop(its, size, i + size,
                   Append(acc, NewBatch(Len(acc),
                                        SubSeq(its, i + 1, Min(i + size, Len(its))))))
    ELSE acc

splitIntoBatches(its, batchSize) ==
    LET size == IF batchSize = 0 THEN batch_size_default ELSE batchSize
    IN  SplitLoop(its, size, 0, <<>>)

(* the array as a 0-based function *)
ZeroBased(s) == [k \in 0..(Len(s) - 1) |-> s[k + 1]]

VARIABLES
    config,     \* options: [concurrency, hasCallback]
    batches,    \* SwarmBatch[] (0-based), mutated in place
    pool,       \* position of processAllBatches: [pc, next]
    max,        \* Semaphore.max
    current,    \* Semaphore.current
    queue,      \* Semaphore.queue: waiting batch tasks, FIFO
    results,    \* BatchResult[] of length N (0-based); DOMAIN = the slots written
    completed,  \* counter
    failed,     \* counter
    task,       \* per batch task: [pc, attempt, lastError, delay]
    invoked,    \* per batch: number of invokeAgent calls made
    calls,      \* per batch: outcome of each finished invokeAgent call ("err" or its output)
    thrown,     \* per batch: message of the last error invokeAgent rejected with
    releases,   \* per batch: number of semaphore.release() calls made
    emitted,    \* telemetry events emitted, invokeAgent calls and callback invocations made so far
    returned,   \* value the pool's promise resolved with
    \* --- reducer.ts ---
    reduceConfig,   \* [strategy, prompt, fanin]: config.reduce and the fan-in in force
    batchResults,   \* the string[] handed to reduceBatchResults
    red,            \* the running call: [pc, input, level, depth]
    groups,         \* the groups of the current hierarchical level
    inflight,       \* invokeAgent calls of the reducer not yet settled
    reduceCalls,    \* every invokeAgent call the reducer made, in call order
    reduceResult,   \* the string reduceBatchResults resolved with
    reduceEmitted,  \* telemetry events of the reducer
    \* --- batch-splitter.ts, splitIntoBatches called on its own ---
    items,          \* argument: the item list
    batchSize,      \* argument: the batch size
    splitResult,    \* the returned SwarmBatch[] (<<>> before the call)
    \* --- batch-splitter.ts, resolveTemplateParams ---
    template,       \* argument: the template, a sequence of pieces
    userMessage,    \* argument: the user message, a sequence of words
    resolved,       \* the call: [done, via, out, steps]
    \* --- batch-splitter.ts, parseItems and extractInlineItems ---
    raw,            \* argument of parseItems: the raw text
    type,           \* argument of parseItems: 'lines' or 'json_array'
    message,        \* argument of extractInlineItems: the message text
    parseCall,      \* the call: [fn, done, out]
    \* --- batch-splitter.ts, resolveInputItems ---
    configInput,    \* config.input: [command, type]
    inputMessage,   \* argument userMessage: the message text
    attachedFiles,  \* argument: the attached files, each [exists, content]
    inputCall,      \* the call: [pc, source, items, output]
    \* --- worker-pool.ts, the Semaphore used on its own ---
    clients,        \* per caller: "idle", "waiting" (in the queue) or "holding"
    semCalls,       \* the acquire and release calls made so far, in order
    \* --- worker-pool.ts, renderBatchPrompt ---
    renderArgs,     \* arguments: [template, items, index, totalBatches, userMessage]
    rendered        \* the call: [done, out]

poolVars == <<config, batches, pool, max, current, queue, results, completed,
              failed, task, invoked, calls, thrown, releases, emitted, returned>>

reduceVars == <<reduceConfig, batchResults, red, groups, inflight, reduceCalls,
                reduceResult, reduceEmitted>>

templateVars == <<template, userMessage, resolved>>

parseVars == <<raw, type, message, parseCall>>

inputVars == <<configInput, inputMessage, attachedFiles, inputCall>>

semVars == <<clients, semCalls>>

renderVars == <<renderArgs, rendered>>

splitVars == <<items, batchSize, splitResult, templateVars, parseVars, inputVars,
               semVars, renderVars>>

vars == <<poolVars, reduceVars, splitVars>>

N == Cardinality(DOMAIN batches)
Ids == DOMAIN batches

NewTask == [pc |-> "unstarted", attempt |-> 0, lastError |-> Undefined, delay |-> 0]

InitPool ==
    /\ \E L \in 0..MaxItems, B \in 0..MaxBatchSize :
          batches = ZeroBased(splitIntoBatches(ItemList(L), B))
    /\ \E c \in 0..MaxConcurrency, cb \in BOOLEAN :
          config = [concurrency |-> c, hasCallback |-> cb]
    /\ pool = [pc |-> "init", next |-> 0]
    /\ max = 0
    /\ current = 0
    /\ queue = <<>>
    /\ results = <<>>
    /\ completed = 0
    /\ failed = 0
    /\ task = [i \in DOMAIN batches |-> NewTask]
    /\ invoked = [i \in DOMAIN batches |-> 0]
    /\ calls = [i \in DOMAIN batches |-> <<>>]
    /\ thrown = [i \in DOMAIN batches |-> Undefined]
    /\ releases = [i \in DOMAIN batches |-> 0]
    /\ emitted = {}
    /\ returned = <<>>

(* ---------- worker-pool.ts: Semaphore ---------- *)
CanGrantOffByOne(cur, mx) == cur <= mx

CanGrant(cur, mx) == cur < mx

(* ---------- processAllBatches, lines 93-107 ---------- *)
EffectiveConcurrency(c) == IF c = 0 THEN concurrency_default ELSE c

PoolStart ==
    /\ pool.pc = "init"
    /\ max' = EffectiveConcurrency(config.concurrency)
    /\ current' = 0
    /\ queue' = <<>>
    /\ results' = <<>>
    /\ completed' = 0
    /\ failed' = 0
    /\ emitted' = emitted \cup {<<"swarm_pool_start", N, EffectiveConcurrency(config.concurrency)>>}
    /\ pool' = [pc |-> "mapping", next |-> 0]
    /\ UNCHANGED <<config, batches, task, invoked, calls, thrown, releases, returned>>
    /\ UNCHANGED <<reduceVars, splitVars>>

(* batches.map: the task of batch i runs synchronously up to its           *)
(* `await semaphore.acquire()`                                             *)
MapBatch(i) ==
    /\ pool.pc = "mapping"
    /\ pool.next = i
    /\ i \in Ids
    /\ IF CanGrant(current, max)
       THEN /\ current' = current + 1
            /\ queue' = queue
            /\ task' = [task EXCEPT ![i].pc = "acquired"]
       ELSE /\ current' = current
            /\ queue' = Append(queue, i)
            /\ task' = [task EXCEPT ![i].pc = "waiting"]
    /\ pool' = [pool EXCEPT !.next = i + 1]
    /\ UNCHANGED <<config, batches, max, results, completed, failed, invoked,
                   calls, thrown, releases, emitted, returned>>
    /\ UNCHANGED <<reduceVars, splitVars>>

(* end of the map: processAllBatches reaches `await Promise.all`           *)
MapDone ==
    /\ pool.pc = "mapping"
    /\ pool.next = N
    /\ pool' = [pool EXCEPT !.pc = "awaiting"]
    /\ UNCHANGED <<config, batches, max, current, queue, results, completed,
                   failed, task, invoked, calls, thrown, releases, emitted, returned>>
    /\ UNCHANGED <<reduceVars, splitVars>>

(* ---------- the batch task, lines 109-203 ---------- *)
BatchStartEventOneBased(b, attempt) == <<"swarm_batch_start", b.index, Len(b.items), attempt + 1>>

(* lines 135-141 *)
BatchStartEvent(b, attempt) == <<"swarm_batch_start", b.index, Len(b.items), attempt>>

StartedBatchStaysPending(b) == b

(* line 113 *)
StartedBatch(b) == [b EXCEPT !.status = "processing"]

InvokeAgentCallResetOnFirst(b, attempt) == <<"invokeAgent", b.index, attempt, attempt = 0>>

(* lines 145-153: the invokeAgent call of one attempt; line 150: shouldReset = true *)
InvokeAgentCall(b, attempt) == <<"invokeAgent", b.index, attempt, TRUE>>

ContinuationRunsAnyOrder(i, t) == TRUE

(* line 110: the continuations of `await semaphore.acquire()` are jobs of  *)
(* the microtask queue, which runs them in the order the acquires were     *)
(* granted; slots are granted in index order (map order, then the FIFO     *)
(* queue), so the granted batch of lowest index resumes first              *)
ContinuationRunsNext(i, t) == \A k \in DOMAIN t : k < i => t[k].pc # "acquired"

(* lines 112-153 with attempt = 0: the continuation of the acquire         *)
BeginBatch(i) ==
    /\ pool.pc \notin {"init", "mapping"}
    /\ i \in Ids
    /\ task[i].pc = "acquired"
    /\ ContinuationRunsNext(i, task)
    /\ batches' = [batches EXCEPT ![i] = StartedBatch(@)]
    /\ task' = [task EXCEPT ![i].pc = "invoking", ![i].attempt = 0]
    /\ emitted' = emitted \cup {BatchStartEvent(batches[i], 0), InvokeAgentCall(batches[i], 0)}
    /\ invoked' = [invoked EXCEPT ![i] = @ + 1]
    /\ UNCHANGED <<config, pool, max, current, queue, results, completed,
                   failed, calls, thrown, releases, returned>>
    /\ UNCHANGED <<reduceVars, splitVars>>

LoopStopsEarly(attempt) == attempt < max_retries

(* line 127: the loop condition *)
LoopContinues(attempt) == attempt <= max_retries

BackoffFromZero(attempt) == backoff_base_ms * Pow2(attempt)

(* line 132: the backoff before attempt `attempt` (> 0) *)
Backoff(attempt) == backoff_base_ms * Pow2(attempt - 1)

ReleasedDuringBackoff(cur) == cur - 1

(* lines 127-133, 157-161: a failed attempt and its backoff sleep leave    *)
(* the semaphore alone; release is called at line 202 only                 *)
HeldDuringBackoff(cur) == cur

RetriesIsAttempt(attempt) == attempt

(* line 159 *)
RetriesAfterFailure(attempt) == attempt + 1

MakeBatchResultKeepsError(b, success, result, lastError) ==
    [batchIndex |-> b.index,
     success |-> success,
     result |-> IF success THEN result ELSE Undefined,
     error |-> lastError]

(* lines 167-173 *)
MakeBatchResult(b, success, result, lastError) ==
    [batchIndex |-> b.index,
     success |-> success,
     result |-> IF success THEN result ELSE Undefined,
     error |-> IF success THEN Undefined ELSE lastError]

SettledBatchNoFailedStatus(b, success, result, lastError) ==
    IF success
    THEN [b EXCEPT !.status = "completed", !.result = result]
    ELSE [b EXCEPT !.error = lastError]

SettledBatchKeepsProcessing(b, success, result, lastError) ==
    IF success
    THEN [b EXCEPT !.result = result]
    ELSE [b EXCEPT !.error = lastError]

(* lines 175-183: the batch's fields after the attempts *)
SettledBatch(b, success, result, lastError) ==
    IF success
    THEN [b EXCEPT !.status = "completed", !.result = result]
    ELSE [b EXCEPT !.status = "failed", !.error = lastError]

WriteResultInCompletionOrder(res, b, r) ==
    LET first == Cardinality(DOMAIN res)
    IN  [k \in DOMAIN res \cup {first} |-> IF k = first THEN r ELSE res[k]]

WriteResultAtBatchNumber(res, b, r) ==
    [k \in DOMAIN res \cup {b.index + 1} |-> IF k = b.index + 1 THEN r ELSE res[k]]

(* line 185 *)
WriteResult(res, b, r) ==
    [k \in DOMAIN res \cup {b.index} |-> IF k = b.index THEN r ELSE res[k]]

BatchDoneEvent(b, success, c, f) == <<"swarm_batch_done", b.index, success, c, f, N>>

ReleaseCurrentNoHandOver(cur, q) == cur - 1

(* Semaphore.release, lines 59-66: the freed slot goes to the head waiter *)
ReleaseCurrent(cur, q) == IF q = <<>> THEN cur - 1 ELSE (cur - 1) + 1

ReleaseQueueKeepsWaiter(q) == q

(* line 61: queue.shift() takes the head waiter off the queue *)
ReleaseQueue(q) == IF q = <<>> THEN q ELSE Tail(q)

NextWaiterNewest(q) == q[Len(q)]

(* line 61: queue.shift() yields the waiter that enqueued first *)
NextWaiter(q) == Head(q)

CallbackCallTotalProcessed(br, c, f) == <<"onBatchComplete", br, c, f, c + f>>

(* lines 198-200: onBatchComplete(batchResult, {completed, total, failed}) *)
CallbackCall(br, c, f) == <<"onBatchComplete", br, c, f, N>>

(* outcomes of options.onBatchComplete, when one is configured *)
CallbackOutcomes == IF config.hasCallback THEN {"returns", "throws"} ELSE {"absent"}

(* lines 164-202: from the end of the attempts to semaphore.release().     *)
(* b is the batch as the attempts left it; a throwing callback ends the    *)
(* task before line 202.                                                   *)
Settle(i, b, success, result, lastError, cb) ==
    LET c == IF success THEN completed + 1 ELSE completed
        f == IF success THEN failed ELSE failed + 1
        br == MakeBatchResult(b, success, result, lastError)
    IN  /\ batches' = [batches EXCEPT ![i] = SettledBatch(b, success, result, lastError)]
        /\ completed' = c
        /\ failed' = f
        /\ results' = WriteResult(results, b, br)
        /\ emitted' = emitted \cup {BatchDoneEvent(b, success, c, f)}
                              \cup (IF cb = "absent" THEN {}
                                    ELSE {CallbackCall(br, c, f)})
        /\ IF cb = "throws"
           THEN /\ task' = [task EXCEPT ![i].pc = "threw", ![i].lastError = lastError]
                /\ UNCHANGED <<current, queue, releases>>
           ELSE /\ current' = ReleaseCurrent(current, queue)
                /\ queue' = ReleaseQueue(queue)
                /\ releases' = [releases EXCEPT ![i] = @ + 1]
                /\ task' = [k \in Ids |->
                              IF k = i
                              THEN [task[i] EXCEPT !.pc = "done", !.lastError = lastError]
                              ELSE IF queue # <<>> /\ k = NextWaiter(queue)
                                   THEN [task[k] EXCEPT !.pc = "acquired"]
                                   ELSE task[k]]

(* invokeAgent resolves: lines 155-156, then 164-202 *)
WorkerSucceeds(i) ==
    /\ i \in Ids
    /\ task[i].pc = "invoking"
    /\ \E out \in Outputs, cb \in CallbackOutcomes :
          /\ calls' = [calls EXCEPT ![i] = Append(@, out)]
          /\ thrown' = thrown
          /\ Settle(i, batches[i], TRUE, out, task[i].lastError, cb)
    /\ UNCHANGED <<config, pool, max, invoked, returned>>
    /\ UNCHANGED <<reduceVars, splitVars>>

(* invokeAgent rejects and attempts remain: lines 157-161, 127-132 *)
WorkerFailsRetry(i) ==
    /\ i \in Ids
    /\ task[i].pc = "invoking"
    /\ LoopContinues(task[i].attempt + 1)
    /\ LET msg == WorkerError(task[i].attempt) IN
          /\ calls' = [calls EXCEPT ![i] = Append(@, "err")]
          /\ thrown' = [thrown EXCEPT ![i] = msg]
          /\ task' = [task EXCEPT ![i].pc = "sleeping",
                                  ![i].lastError = msg,
                                  ![i].attempt = @ + 1,
                                  ![i].delay = Backoff(task[i].attempt + 1)]
    /\ batches' = [batches EXCEPT ![i].retries = RetriesAfterFailure(task[i].attempt)]
    /\ current' = HeldDuringBackoff(current)
    /\ UNCHANGED <<config, pool, max, queue, results, completed,
                   failed, invoked, releases, emitted, returned>>
    /\ UNCHANGED <<reduceVars, splitVars>>

(* the backoff timer fires: lines 135-153 *)
RetryBatch(i) ==
    /\ i \in Ids
    /\ task[i].pc = "sleeping"
    /\ task' = [task EXCEPT ![i].pc = "invoking"]
    /\ emitted' = emitted \cup {BatchStartEvent(batches[i], task[i].attempt),
                              InvokeAgentCall(batches[i], task[i].attempt)}
    /\ invoked' = [invoked EXCEPT ![i] = @ + 1]
    /\ UNCHANGED <<config, batches, pool, max, current, queue, results,
                   completed, failed, calls, thrown, releases, returned>>
    /\ UNCHANGED <<reduceVars, splitVars>>

(* invokeAgent rejects on the last attempt: lines 157-161, then 164-202 *)
WorkerFailsExhausted(i) ==
    /\ i \in Ids
    /\ task[i].pc = "invoking"
    /\ ~LoopContinues(task[i].attempt + 1)
    /\ \E cb \in CallbackOutcomes :
       LET msg == WorkerError(task[i].attempt) IN
          /\ calls' = [calls EXCEPT ![i] = Append(@, "err")]
          /\ thrown' = [thrown EXCEPT ![i] = msg]
          /\ Settle(i, [batches[i] EXCEPT !.retries = RetriesAfterFailure(task[i].attempt)],
                    FALSE, Undefined, msg, cb)
    /\ UNCHANGED <<config, pool, max, invoked, returned>>
    /\ UNCHANGED <<reduceVars, splitVars>>

(* ---------- lines 205-216: Promise.all and the return ---------- *)
PromiseAnyFulfilled(t) == \E i \in DOMAIN t : t[i].pc = "done"

PromiseAllFulfilled(t) == \A i \in DOMAIN t : t[i].pc = "done"

PromiseAllRejected(t) == \E i \in DOMAIN t : t[i].pc = "threw"

PoolResolve ==
    /\ pool.pc = "awaiting"
    /\ PromiseAllFulfilled(task)
    /\ pool' = [pool EXCEPT !.pc = "resolved"]
    /\ emitted' = emitted \cup {<<"swarm_pool_done", completed, failed, N>>}
    /\ returned' = results
    /\ UNCHANGED <<config, batches, max, current, queue, results, completed,
                   failed, task, invoked, calls, thrown, releases>>
    /\ UNCHANGED <<reduceVars, splitVars>>

PoolReject ==
    /\ pool.pc = "awaiting"
    /\ PromiseAllRejected(task)
    /\ pool' = [pool EXCEPT !.pc = "rejected"]
    /\ UNCHANGED <<config, batches, max, current, queue, results, completed,
                   failed, task, invoked, calls, thrown, releases, emitted, returned>>
    /\ UNCHANGED <<reduceVars, splitVars>>

(* ---------- reducer.ts: strings ---------- *)
(* A string is a sequence of tokens; a token is a piece of text with its   *)
(* length in characters.  Concatenation of strings is \o.                  *)
Tok(t, a, b, c, d, len) == [t |-> t, a |-> a, b |-> b, c |-> c, d |-> d, len |-> len]

RECURSIVE Digits(_)
Digits(k) == IF k < 10 THEN 1 ELSE 1 + Digits(k \div 10)

(* the length of tokens lo..hi, summed by halves *)
RECURSIVE StrLenRange(_, _, _)
StrLenRange(str, lo, hi) ==
    IF lo > hi THEN 0
    ELSE IF lo = hi THEN str[lo].len
    ELSE LET mid == (lo + hi) \div 2
         IN  StrLenRange(str, lo, mid) + StrLenRange(str, mid + 1, hi)

StrLen(str) == StrLenRange(str, 1, Len(str))

(* the k-th batch result, of the given length *)
Text(k, len) == Tok("text", k, 0, 0, 0, len)

(* line 77: `## Batch ${i + 1} of ${batchResults.length}\n\n`, i1 = i + 1 *)
Heading(i1, n) == Tok("heading", i1, n, 0, 0, 9 + Digits(i1) + 4 + Digits(n) + 2)

(* lines 78, 213: '\n\n---\n\n' *)
Divider == Tok("divider", 0, 0, 0, 0, 7)

(* '\n\n' *)
Blank == Tok("blank", 0, 0, 0, 0, 2)

(* Array.prototype.join over parts lo..hi, built by halves *)
RECURSIVE JoinRange(_, _, _, _)
JoinRange(parts, sep, lo, hi) ==
    IF lo > hi THEN <<>>
    ELSE IF lo = hi THEN parts[lo]
    ELSE LET mid == (lo + hi) \div 2
         IN  JoinRange(parts, sep, lo, mid) \o sep \o JoinRange(parts, sep, mid + 1, hi)

SectionHeadingZeroBased(i, n) == Heading(i, n)

(* line 77: the heading of section i (0-based) of n *)
SectionHeading(i, n) == Heading(i + 1, n)

(* reduceConcatenate, lines 73-79 *)
reduceConcatenate(rs) ==
    IF Len(rs) = 1 THEN rs[1]
    ELSE JoinRange([i \in 1..Len(rs) |-> <<SectionHeading(i - 1, Len(rs))>> \o rs[i]],
                   <<Divider>>, 1, Len(rs))

(* buildReducePrompt, lines 192-214; level < 0 stands for the call without *)
(* level, groupIndex and totalGroups (line 99)                             *)
ContextLine(batchCount, level, groupIndex, totalGroups) ==
    IF level >= 0
    THEN Tok("context_group", groupIndex + 1, totalGroups, level + 1, batchCount, 100)
    ELSE Tok("context_top", batchCount, 0, 0, 0, 80)

UserReducePrompt == Tok("user_prompt", 0, 0, 0, 0, 30)

DefaultInstruction == Tok("default_instruction", 0, 0, 0, 0, 200)

OriginalTask == Tok("original_task", 0, 0, 0, 0, 40)

buildReducePrompt(combined, batchCount, custom, level, groupIndex, totalGroups) ==
    LET ctx == ContextLine(batchCount, level, groupIndex, totalGroups)
        instruction == IF custom THEN <<UserReducePrompt, Blank, ctx>>
                       ELSE <<ctx, Blank, DefaultInstruction>>
    IN  instruction \o <<Blank, OriginalTask, Divider>> \o combined

(* the reduction worker: what invokeAgent resolves with is a summary that  *)
(* names the context line of the prompt it was given                       *)
SummaryLen == 40

PromptContext(prompt) ==
    prompt[CHOOSE k \in 1..Len(prompt) : prompt[k].t \in {"context_group", "context_top"}]

WorkerSummary(prompt) ==
    LET ctx == PromptContext(prompt)
    IN  <<Tok("summary_of_" \o ctx.t, ctx.a, ctx.b, ctx.c, ctx.d, SummaryLen)>>

(* line 93-94: estimatedTokens = combined.length / 4 > 150000, in reals *)
TooLargeIntegerDivision(combined) == StrLen(combined) \div 4 > summarize_token_limit

TooLarge(combined) == StrLen(combined) > 4 * summarize_token_limit

(* line 34 *)
EffectiveStrategy(st) == IF st = Undefined THEN "concatenate" ELSE st

(* the reducer and the splitter before they are called *)
ReduceIdle ==
    /\ reduceConfig = [strategy |-> Undefined, prompt |-> FALSE, fanin |-> hierarchical_reduce_fanin]
    /\ batchResults = <<>>
    /\ red = [pc |-> "idle", input |-> <<>>, level |-> 0, depth |-> 0]
    /\ groups = <<>>
    /\ inflight = {}
    /\ reduceCalls = <<>>
    /\ reduceResult = <<>>
    /\ reduceEmitted = {}

TemplateIdle ==
    /\ template = <<>>
    /\ userMessage = <<>>
    /\ resolved = [done |-> FALSE, via |-> Undefined, out |-> <<>>, steps |-> <<>>]

ParseIdle ==
    /\ raw = <<>>
    /\ type = Undefined
    /\ message = <<>>
    /\ parseCall = [fn |-> Undefined, done |-> FALSE, found |-> FALSE, out |-> <<>>]

SemaphoreIdle ==
    /\ clients = <<>>
    /\ semCalls = <<>>

RenderIdle ==
    /\ renderArgs = [template |-> <<>>, items |-> <<>>, index |-> 0, totalBatches |-> 0,
                     userMessage |-> <<>>]
    /\ rendered = [done |-> FALSE, out |-> <<>>]

InputIdle ==
    /\ configInput = [command |-> FALSE, type |-> Undefined]
    /\ inputMessage = <<>>
    /\ attachedFiles = <<>>
    /\ inputCall = [pc |-> "idle", source |-> Undefined, items |-> <<>>, output |-> <<>>]

SplitIdle ==
    /\ items = <<>>
    /\ batchSize = 0
    /\ splitResult = [done |-> FALSE, out |-> <<>>]
    /\ TemplateIdle
    /\ ParseIdle
    /\ InputIdle
    /\ SemaphoreIdle
    /\ RenderIdle

PoolIdle ==
    /\ batches = <<>>
    /\ config = [concurrency |-> 0, hasCallback |-> FALSE]
    /\ pool = [pc |-> "idle", next |-> 0]
    /\ max = 0
    /\ current = 0
    /\ queue = <<>>
    /\ results = <<>>
    /\ completed = 0
    /\ failed = 0
    /\ task = <<>>
    /\ invoked = <<>>
    /\ calls = <<>>
    /\ thrown = <<>>
    /\ releases = <<>>
    /\ emitted = {}
    /\ returned = <<>>

(* ---------- splitIntoBatches called on item lists of its own ---------- *)
ItemValues == {"a", "b"}

RECURSIVE SeqsUpTo(_, _)
SeqsUpTo(S, n) ==
    IF n = 0 THEN {<<>>}
    ELSE LET shorter == SeqsUpTo(S, n - 1)
         IN  shorter \cup {Append(q, x) : q \in shorter, x \in S}

InitSplit ==
    /\ PoolIdle
    /\ ReduceIdle
    /\ items \in SeqsUpTo(ItemValues, MaxSplitLen)
    /\ batchSize \in 0..MaxSplitSize
    /\ splitResult = [done |-> FALSE, out |-> <<>>]
    /\ TemplateIdle
    /\ ParseIdle
    /\ InputIdle
    /\ SemaphoreIdle
    /\ RenderIdle

SplitCall ==
    /\ ~splitResult.done
    /\ splitResult' = [done |-> TRUE, out |-> splitIntoBatches(items, batchSize)]
    /\ UNCHANGED <<items, batchSize, poolVars, reduceVars, templateVars, parseVars, inputVars,
                   semVars, renderVars>>

NextSplit == SplitCall

SpecSplit == InitSplit /\ [][NextSplit]_vars

(* ---------- reducer.ts: reduceBatchResults and its strategies ---------- *)
Strategies == {"concatenate", "summarize", "hierarchical"}

(* fan-in values the reducer is run with: the program's, and a small one   *)
(* under which a few results already need a second level                   *)
Fanins == {hierarchical_reduce_fanin, SmallFanin}

ShortLen == 5

(* length of the first batch result; the others are short *)
FirstLens == {ShortLen, 4 * summarize_token_limit, 4 * summarize_token_limit + 1}

InitReduce ==
    /\ PoolIdle
    /\ SplitIdle
    /\ \E f \in Fanins, st \in Strategies \cup {Undefined}, custom \in BOOLEAN :
          reduceConfig = [strategy |-> st, prompt |-> custom, fanin |-> f]
    /\ \E n \in 0..(reduceConfig.fanin * MaxGroups), first \in FirstLens :
          batchResults = [k \in 1..n |-> <<Text(k, IF k = 1 THEN first ELSE ShortLen)>>]
    /\ red = [pc |-> "idle", input |-> <<>>, level |-> 0, depth |-> 0]
    /\ groups = <<>>
    /\ inflight = {}
    /\ reduceCalls = <<>>
    /\ reduceResult = <<>>
    /\ reduceEmitted = {}

fanin == reduceConfig.fanin

ReduceStartEvent == <<"swarm_reduce_start", EffectiveStrategy(reduceConfig.strategy), Len(batchResults)>>

ReduceDoneEvent(result) == <<"swarm_reduce_done", EffectiveStrategy(reduceConfig.strategy), StrLen(result)>>

(* lines 60-67: reduceBatchResults resumes with the strategy's result *)
Return(result) ==
    /\ reduceResult' = result
    /\ reduceEmitted' = reduceEmitted \cup {ReduceDoneEvent(result)}

(* lines 34-48, 56-67 *)
StartConcatenate ==
    /\ red.pc = "idle"
    /\ EffectiveStrategy(reduceConfig.strategy) = "concatenate"
    /\ reduceResult' = reduceConcatenate(batchResults)
    /\ reduceEmitted' = reduceEmitted \cup {ReduceStartEvent,
                                            ReduceDoneEvent(reduceConcatenate(batchResults))}
    /\ red' = [red EXCEPT !.pc = "returned", !.input = batchResults]
    /\ UNCHANGED <<reduceConfig, batchResults, groups, inflight, reduceCalls,
                   poolVars, splitVars>>

(* lines 34-46, 50-55: the call of reduceSummarize or reduceHierarchical *)
StartStrategy ==
    /\ red.pc = "idle"
    /\ EffectiveStrategy(reduceConfig.strategy) \in {"summarize", "hierarchical"}
    /\ reduceEmitted' = reduceEmitted \cup {ReduceStartEvent}
    /\ red' = [pc |-> EffectiveStrategy(reduceConfig.strategy), input |-> batchResults,
               level |-> 0, depth |-> 1]
    /\ UNCHANGED <<reduceConfig, batchResults, groups, inflight, reduceCalls,
                   reduceResult, poolVars, splitVars>>

(* one invokeAgent call of the reducer; line 113 / 168: shouldReset = true *)
ReduceCall(kind, level, group, input, prompt) ==
    [kind |-> kind, level |-> level, group |-> group, input |-> input,
     prompt |-> prompt, fresh |-> TRUE, outcome |-> "pending"]

(* reduceSummarize, lines 89-97: too large, hand over to reduceHierarchical *)
SummarizeDelegates ==
    /\ red.pc = "summarize"
    /\ red.depth < MaxStack
    /\ TooLarge(reduceConcatenate(red.input))
    /\ red' = [red EXCEPT !.pc = "hierarchical", !.level = 0, !.depth = @ + 1]
    /\ UNCHANGED <<reduceConfig, batchResults, groups, inflight, reduceCalls,
                   reduceResult, reduceEmitted, poolVars, splitVars>>

(* reduceSummarize, lines 89-116: the single pass is sent to the worker *)
SummarizeInvokes ==
    /\ red.pc = "summarize"
    /\ red.depth < MaxStack
    /\ ~TooLarge(reduceConcatenate(red.input))
    /\ LET combined == reduceConcatenate(red.input)
           prompt == buildReducePrompt(combined, Len(red.input), reduceConfig.prompt, -1, -1, -1)
       IN  /\ reduceCalls' = Append(reduceCalls,
                                    ReduceCall("summarize", -1, -1, red.input, prompt))
           /\ inflight' = inflight \cup {Len(reduceCalls) + 1}
    /\ red' = [red EXCEPT !.pc = "invoking"]
    /\ UNCHANGED <<reduceConfig, batchResults, groups, reduceResult, reduceEmitted,
                   poolVars, splitVars>>

(* the call awaited by reduceSummarize *)
SummarizeCallId == CHOOSE k \in inflight : reduceCalls[k].kind = "summarize"

(* lines 108-116: the worker resolves *)
SummarizeWorkerOk ==
    /\ red.pc = "invoking"
    /\ LET k == SummarizeCallId
       IN  /\ reduceCalls' = [reduceCalls EXCEPT ![k].outcome = "ok"]
           /\ inflight' = inflight \ {k}
           /\ Return(WorkerSummary(reduceCalls[k].prompt))
    /\ red' = [red EXCEPT !.pc = "returned"]
    /\ UNCHANGED <<reduceConfig, batchResults, groups, poolVars, splitVars>>

SummarizeFallbackFirstOnly(input) == IF input = <<>> THEN <<>> ELSE input[1]

SummarizeFallbackOriginalResults(input) == reduceConcatenate(batchResults)

(* line 119 *)
SummarizeFallback(input) == reduceConcatenate(input)

(* lines 117-120: the worker rejects *)
SummarizeWorkerFails ==
    /\ red.pc = "invoking"
    /\ LET k == SummarizeCallId
       IN  /\ reduceCalls' = [reduceCalls EXCEPT ![k].outcome = "err"]
           /\ inflight' = inflight \ {k}
           /\ Return(SummarizeFallback(red.input))
    /\ red' = [red EXCEPT !.pc = "returned"]
    /\ UNCHANGED <<reduceConfig, batchResults, groups, poolVars, splitVars>>

NeedsGroupsInclusive(n, f) == n >= f

(* line 139, negated: more results than the fan-in *)
NeedsGroups(n, f) == n > f

(* reduceHierarchical, lines 136-141: the base case *)
HierarchicalDelegates ==
    /\ red.pc = "hierarchical"
    /\ red.depth < MaxStack
    /\ ~NeedsGroups(Len(red.input), fanin)
    /\ red' = [red EXCEPT !.pc = "summarize", !.depth = @ + 1]
    /\ UNCHANGED <<reduceConfig, batchResults, groups, inflight, reduceCalls,
                   reduceResult, reduceEmitted, poolVars, splitVars>>

GroupSliceOverlapping(rs, f, g) ==
    SubSeq(rs, (g - 1) * f + 1, Min(g * f + 1, Len(rs)))

(* lines 147-148: group g (1-based) is batchResults.slice(i, i + fanin) *)
GroupSlice(rs, f, g) == SubSeq(rs, (g - 1) * f + 1, Min(g * f, Len(rs)))

(* lines 146-149 *)
GroupCount(n, f) == (n + f - 1) \div f

(* reduceHierarchical, lines 143-171: the groups are formed and every      *)
(* group's worker call is made                                             *)
HierarchicalGroups ==
    /\ red.pc = "hierarchical"
    /\ red.depth < MaxStack
    /\ NeedsGroups(Len(red.input), fanin)
    /\ LET total == GroupCount(Len(red.input), fanin)
           slice(g) == GroupSlice(red.input, fanin, g)
           prompt(g) == buildReducePrompt(reduceConcatenate(slice(g)), Len(slice(g)),
                                          reduceConfig.prompt, red.level, g - 1, total)
       IN  /\ groups' = [g \in 1..total |->
                            [items |-> slice(g), state |-> "invoking", summary |-> <<>>,
                             call |-> Len(reduceCalls) + g]]
           /\ reduceCalls' = reduceCalls \o
                                [g \in 1..total |->
                                    ReduceCall("group", red.level, g - 1, slice(g), prompt(g))]
           /\ inflight' = inflight \cup {Len(reduceCalls) + g : g \in 1..total}
    /\ red' = [red EXCEPT !.pc = "groups"]
    /\ UNCHANGED <<reduceConfig, batchResults, reduceResult, reduceEmitted,
                   poolVars, splitVars>>

(* lines 163-171: a group's worker resolves *)
GroupWorkerOk(g) ==
    /\ red.pc = "groups"
    /\ g \in DOMAIN groups
    /\ groups[g].state = "invoking"
    /\ groups' = [groups EXCEPT ![g].state = "ok",
                                ![g].summary = WorkerSummary(reduceCalls[groups[g].call].prompt)]
    /\ reduceCalls' = [reduceCalls EXCEPT ![groups[g].call].outcome = "ok"]
    /\ inflight' = inflight \ {groups[g].call}
    /\ UNCHANGED <<reduceConfig, batchResults, red, reduceResult, reduceEmitted,
                   poolVars, splitVars>>

GroupFallbackEmpty(its) == <<>>

(* lines 156, 175: `combined`, the group's concatenation *)
GroupFallback(its) == reduceConcatenate(its)

(* lines 172-176: a group's worker rejects *)
GroupWorkerFails(g) ==
    /\ red.pc = "groups"
    /\ g \in DOMAIN groups
    /\ groups[g].state = "invoking"
    /\ groups' = [groups EXCEPT ![g].state = "failed",
                                ![g].summary = GroupFallback(groups[g].items)]
    /\ reduceCalls' = [reduceCalls EXCEPT ![groups[g].call].outcome = "err"]
    /\ inflight' = inflight \ {groups[g].call}
    /\ UNCHANGED <<reduceConfig, batchResults, red, reduceResult, reduceEmitted,
                   poolVars, splitVars>>

AnyGroupSettled(gs) == \E g \in DOMAIN gs : gs[g].state # "invoking"

(* line 152: Promise.all over the group tasks, none of which rejects *)
AllGroupsSettled(gs) == \A g \in DOMAIN gs : gs[g].state # "invoking"

(* line 152: groupSummaries, in group order *)
GroupSummaries(gs) == [g \in DOMAIN gs |-> gs[g].summary]

(* lines 180-183: still more summaries than the fan-in *)
JoinRecurse ==
    /\ red.pc = "groups"
    /\ AllGroupsSettled(groups)
    /\ NeedsGroups(Len(GroupSummaries(groups)), fanin)
    /\ red' = [pc |-> "hierarchical", input |-> GroupSummaries(groups),
               level |-> red.level + 1, depth |-> 1]
    /\ UNCHANGED <<reduceConfig, batchResults, groups, inflight, reduceCalls,
                   reduceResult, reduceEmitted, poolVars, splitVars>>

(* lines 185-186: the final pass *)
JoinFinalPass ==
    /\ red.pc = "groups"
    /\ AllGroupsSettled(groups)
    /\ ~NeedsGroups(Len(GroupSummaries(groups)), fanin)
    /\ red' = [red EXCEPT !.pc = "summarize", !.input = GroupSummaries(groups), !.depth = 1]
    /\ UNCHANGED <<reduceConfig, batchResults, groups, inflight, reduceCalls,
                   reduceResult, reduceEmitted, poolVars, splitVars>>

(* lines 96, 140: reduceSummarize and reduceHierarchical call each other   *)
(* without an await in between; when the call stack is exhausted the       *)
(* engine throws a RangeError, which rejects every promise of the chain    *)
(* up to reduceBatchResults                                                *)
StackOverflow ==
    /\ red.pc \in {"summarize", "hierarchical"}
    /\ red.depth >= MaxStack
    /\ red' = [red EXCEPT !.pc = "rejected"]
    /\ UNCHANGED <<reduceConfig, batchResults, groups, inflight, reduceCalls,
                   reduceResult, reduceEmitted, poolVars, splitVars>>

NextReduce ==
    \/ StartConcatenate
    \/ StartStrategy
    \/ SummarizeDelegates
    \/ SummarizeInvokes
    \/ SummarizeWorkerOk
    \/ SummarizeWorkerFails
    \/ HierarchicalDelegates
    \/ HierarchicalGroups
    \/ \E g \in DOMAIN groups : GroupWorkerOk(g)
    \/ \E g \in DOMAIN groups : GroupWorkerFails(g)
    \/ JoinRecurse
    \/ JoinFinalPass
    \/ StackOverflow

SpecReduce == InitReduce /\ [][NextReduce]_vars

Init == InitPool /\ ReduceIdle /\ SplitIdle

Next ==
    \/ PoolStart
    \/ \E i \in Ids : MapBatch(i)
    \/ MapDone
    \/ \E i \in Ids : BeginBatch(i)
    \/ \E i \in Ids : WorkerSucceeds(i)
    \/ \E i \in Ids : WorkerFailsRetry(i)
    \/ \E i \in Ids : RetryBatch(i)
    \/ \E i \in Ids : WorkerFailsExhausted(i)
    \/ PoolResolve
    \/ PoolReject

Spec == Init /\ [][Next]_vars

TypeOK ==
    /\ pool.pc \in {"idle", "init", "mapping", "awaiting", "resolved", "rejected"}
    /\ \A i \in Ids : task[i].pc \in {"unstarted", "waiting", "acquired", "invoking",
                                      "sleeping", "done", "threw"}
    /\ \A i \in Ids : batches[i].status \in {"pending", "processing", "completed", "failed"}

(* ---------- derived notions used by the properties ---------- *)
(* batches that were granted a slot and have not released it *)
Holders == {i \in Ids : task[i].pc \in {"acquired", "invoking", "sleeping", "threw"}}

DoneEvents == {e \in emitted : e[1] = "swarm_batch_done"}

(* position of batch index idx in the order of completion (1 = first) *)
FinishedAt(idx, rank) == \E e \in DoneEvents : e[2] = idx /\ e[4] + e[5] = rank

Last(s) == s[Len(s)]

AllErr(s) == \A k \in 1..Len(s) : s[k] = "err"

(* C1: at every moment at most `concurrency` batches hold a semaphore slot *)
C1_ConcurrencyBound ==
    Cardinality(Holders) <= EffectiveConcurrency(config.concurrency)

C1_Witness ==
    /\ Cardinality(Holders) = EffectiveConcurrency(config.concurrency)
    /\ queue # <<>>
    /\ \E i \in Ids : task[i].pc = "sleeping"
    /\ \E i \in Ids : task[i].pc = "done"

(* C2: the resolved array has one entry per batch and entry i carries      *)
(* batchIndex i, whatever the completion order                             *)
C2_IndexStable ==
    pool.pc = "resolved" =>
        /\ DOMAIN returned = 0..(N - 1)
        /\ \A i \in 0..(N - 1) : returned[i].batchIndex = i

C2_Witness ==
    /\ pool.pc = "resolved"
    /\ N >= 2
    /\ FinishedAt(1, 1)
    /\ FinishedAt(0, 2)

(* C3: when the pool has finished (its promise resolved) every batch is    *)
(* completed or failed and completed + failed equals the batch count       *)
C3_AllTerminalAtFinish ==
    pool.pc = "resolved" =>
        /\ \A i \in Ids : batches[i].status \in Terminal
        /\ completed + failed = N

C3_Witness ==
    /\ pool.pc = "resolved"
    /\ completed >= 1
    /\ failed >= 1

(* C4: a batch's worker is invoked at most max_retries + 1 times; a batch  *)
(* that ends failed was invoked exactly max_retries + 1 times, all of them *)
(* failing; after a successful invocation there is no further one          *)
C4_AttemptsBounded ==
    \A i \in Ids :
        /\ invoked[i] <= max_retries + 1
        /\ (AllErr(calls[i]) /\ task[i].pc \in {"done", "threw"}) =>
              /\ invoked[i] = max_retries + 1
              /\ Len(calls[i]) = max_retries + 1
              /\ batches[i].status = "failed"
        /\ (\E k \in 1..Len(calls[i]) : calls[i][k] # "err") =>
              /\ Last(calls[i]) # "err"
              /\ AllErr(SubSeq(calls[i], 1, Len(calls[i]) - 1))
              /\ invoked[i] = Len(calls[i])

C4_Witness ==
    \E i, j \in Ids :
        /\ batches[i].status = "failed"
        /\ invoked[i] = 3
        /\ batches[j].status = "completed"
        /\ invoked[j] = 2

(* C5: every batch's retries field is at most max_retries *)
C5_RetriesBounded ==
    \A i \in Ids : batches[i].retries <= max_retries

(* C6: a batch whose worker fails k times and then succeeds ends completed *)
(* with retries = k (0 when the first attempt succeeds)                    *)
C6_RetriesCountFailures ==
    \A i \in Ids :
        /\ (calls[i] # <<>> /\ Last(calls[i]) # "err") =>
              /\ batches[i].status = "completed"
              /\ batches[i].retries = Len(calls[i]) - 1
              /\ batches[i].retries <= max_retries
        /\ batches[i].status = "completed" =>
              (calls[i] # <<>> /\ Last(calls[i]) # "err")

C6_Witness ==
    \E i, j \in Ids :
        /\ batches[i].status = "completed"
        /\ calls[i] = <<"err", "err", "out">>
        /\ batches[i].retries = 2
        /\ batches[j].status = "completed"
        /\ calls[j] = <<"out">>
        /\ batches[j].retries = 0

(* C7: a batch that has reached a terminal state has released its slot     *)
(* exactly once, also when the completion callback throws                  *)
C7_SlotReleasedAtTerminal ==
    \A i \in Ids :
        /\ releases[i] <= 1
        /\ batches[i].status \in Terminal => (releases[i] = 1 /\ i \notin Holders)

(* C8: the pool's promise never rejects *)
C8_PoolNeverRejects ==
    pool.pc # "rejected"

(* C9: the pool resolves, and emits swarm_pool_done, only in a step taken  *)
(* from a state in which every batch is completed or failed                *)
C9_ResolveAfterAllTerminal ==
    [][ (\/ (pool.pc # "resolved" /\ pool'.pc = "resolved")
         \/ (\E e \in emitted' \ emitted : e[1] = "swarm_pool_done"))
        => \A i \in Ids : batches[i].status \in Terminal ]_vars

C9_Witness ==
    /\ pool.pc = "resolved"
    /\ N >= 2
    /\ \E e \in emitted : e[1] = "swarm_pool_done"

(* C10: a batch out of attempts is failed with success = false, no result  *)
(* and the last attempt's error; a batch that succeeds has success = true, *)
(* its result and no error; each batch's outcome depends on its own        *)
(* worker calls only                                                       *)
C10_OutcomePerBatch ==
    \A i \in Ids :
        /\ (Len(calls[i]) = max_retries + 1 /\ AllErr(calls[i])) =>
              /\ batches[i].status = "failed"
              /\ batches[i].error = thrown[i]
              /\ batches[i].index \in DOMAIN results
              /\ results[batches[i].index] =
                    [batchIndex |-> batches[i].index, success |-> FALSE,
                     result |-> Undefined, error |-> thrown[i]]
        /\ (calls[i] # <<>> /\ Last(calls[i]) # "err") =>
              /\ batches[i].status = "completed"
              /\ batches[i].result = Last(calls[i])
              /\ batches[i].index \in DOMAIN results
              /\ results[batches[i].index] =
                    [batchIndex |-> batches[i].index, success |-> TRUE,
                     result |-> Last(calls[i]), error |-> Undefined]
        /\ batches[i].status \in Terminal =>
              \/ Len(calls[i]) = max_retries + 1 /\ AllErr(calls[i])
              \/ calls[i] # <<>> /\ Last(calls[i]) # "err"

C10_Witness ==
    \E i, j \in Ids :
        /\ batches[i].status = "failed"
        /\ results[i].error = "e2"
        /\ batches[i].error = "e2"
        /\ batches[j].status = "completed"
        /\ batches[j].retries >= 1
        /\ results[j].success

(* C11: the semaphore is FIFO: a waiter is granted a slot only as the head *)
(* of the queue, by a release that hands it the freed slot directly        *)
(* (current unchanged), the queue keeps its order, and no acquire is       *)
(* granted while a waiter is queued                                        *)
C11_SemaphoreFifo ==
    [][ /\ \A i \in Ids :
             (task[i].pc = "waiting" /\ task'[i].pc = "acquired") =>
                 /\ queue # <<>>
                 /\ Head(queue) = i
                 /\ queue' = Tail(queue)
                 /\ current' = current
        /\ \A i \in Ids :
             (task[i].pc = "unstarted" /\ task'[i].pc = "acquired") => queue = <<>>
        /\ \/ queue' = queue
           \/ (queue # <<>> /\ queue' = Tail(queue))
           \/ \E i \in Ids : queue' = Append(queue, i)
        /\ \A i \in Ids :
             (task[i].pc = "waiting" /\ task'[i].pc = "waiting") =>
                 \E k \in 1..Len(queue') : queue'[k] = i ]_vars

C11_Witness ==
    /\ N >= 3
    /\ max = 1
    /\ releases[0] = 1
    /\ task[1].pc = "acquired"
    /\ queue = <<2>>

(* C19: for a non-empty list of length L and batch size B >= 1 the split  *)
(* yields ceil(L/B) batches with indices 0..n-1 in order, all pending with *)
(* retries 0, of size B except possibly the last, whose items put end to   *)
(* end are the original list                                               *)
C19_SplitComplete ==
    (splitResult.done /\ Len(items) >= 1 /\ batchSize >= 1) =>
        LET L == Len(items)
            B == batchSize
            out == splitResult.out
            n == (L + B - 1) \div B
        IN  /\ Len(out) = n
            /\ \A k \in 1..n :
                  /\ out[k].index = k - 1
                  /\ out[k].status = "pending"
                  /\ out[k].retries = 0
                  /\ Len(out[k].items) = IF k < n THEN B ELSE L - B * (n - 1)
                  /\ Len(out[k].items) >= 1
                  /\ \A j \in 1..Len(out[k].items) :
                        out[k].items[j] = items[(k - 1) * B + j]

C19_Witness ==
    /\ splitResult.done
    /\ items = <<"a", "b", "b", "a", "b">>
    /\ batchSize = 2
    /\ Len(splitResult.out) = 3
    /\ splitResult.out[3].items = <<"b">>

(* ---------- derived notions of the reducer's properties ---------- *)
CallsOfKind(kind) == {k \in DOMAIN reduceCalls : reduceCalls[k].kind = kind}

CeilDiv(n, f) == (n + f - 1) \div f

(* C12: reduceBatchResults never fails, for every strategy, input list and *)
(* worker behaviour                                                        *)
C12_ReduceNeverFails ==
    red.pc # "rejected"

(* C13: reduceSummarize never sends the worker a concatenation estimated   *)
(* above 150000 tokens (more than 600000 characters); on such an input it  *)
(* makes no worker call and hands the same inputs to reduceHierarchical    *)
C13_NoOversizedSummarize ==
    /\ [](\A k \in CallsOfKind("summarize") :
             StrLen(reduceConcatenate(reduceCalls[k].input)) <= 4 * summarize_token_limit)
    /\ [][ (red.pc = "summarize"
            /\ StrLen(reduceConcatenate(red.input)) > 4 * summarize_token_limit) =>
               /\ reduceCalls' = reduceCalls
               /\ red'.input = red.input
               /\ red'.pc \in {"hierarchical", "rejected"} ]_vars

C13_Witness ==
    /\ reduceConfig.strategy = "summarize"
    /\ StrLen(reduceConcatenate(batchResults)) > 4 * summarize_token_limit
    /\ Len(batchResults) > fanin
    /\ CallsOfKind("group") # {}
    /\ red.pc = "returned"

(* C14: when the single summarize call fails, reduceSummarize returns the  *)
(* concatenation of its inputs and the reducer does not fail               *)
C14_SummarizeFallsBack ==
    \A k \in CallsOfKind("summarize") :
        reduceCalls[k].outcome = "err" =>
            /\ red.pc = "returned"
            /\ reduceResult = reduceConcatenate(reduceCalls[k].input)
            /\ Len(reduceCalls[k].input) >= 2 =>
                  \E j \in 1..Len(reduceResult) : reduceResult[j].t = "heading"

C14_Witness ==
    /\ reduceConfig.strategy = "summarize"
    /\ Len(batchResults) = 3
    /\ red.pc = "returned"
    /\ \E k \in CallsOfKind("summarize") : reduceCalls[k].outcome = "err"

(* C15: reduceHierarchical on at most fan-in results forms no group and    *)
(* makes no group call: it hands the same inputs to reduceSummarize        *)
C15_HierarchicalBaseCase ==
    /\ []((reduceConfig.strategy = "hierarchical" /\ Len(batchResults) <= fanin) =>
             (groups = <<>> /\ CallsOfKind("group") = {}))
    /\ [][ (red.pc = "hierarchical" /\ Len(red.input) <= fanin) =>
               /\ groups' = groups
               /\ reduceCalls' = reduceCalls
               /\ red'.input = red.input
               /\ red'.pc \in {"summarize", "rejected"} ]_vars

C15_Witness ==
    /\ reduceConfig.strategy = "hierarchical"
    /\ fanin = 20
    /\ Len(batchResults) = 15
    /\ red.pc = "returned"
    /\ Len(reduceCalls) = 1
    /\ reduceCalls[1].kind = "summarize"
    /\ reduceCalls[1].input = batchResults

(* C16: more than fan-in results are cut into ceil(n/fan-in) consecutive   *)
(* groups of at most fan-in, one worker call and one summary per group in  *)
(* group order; the summaries go to level + 1 when they still exceed the   *)
(* fan-in and otherwise to the one final summarize pass                    *)
C16_GroupsAndLevels ==
    /\ [](red.pc = "groups" =>
            LET n == Len(red.input)
                total == CeilDiv(n, fanin)
            IN  /\ n > fanin
                /\ Len(groups) = total
                /\ \A g \in 1..total :
                      /\ Len(groups[g].items) = IF g < total THEN fanin ELSE n - fanin * (total - 1)
                      /\ Len(groups[g].items) >= 1
                      /\ \A j \in 1..Len(groups[g].items) :
                            groups[g].items[j] = red.input[(g - 1) * fanin + j]
                      /\ reduceCalls[groups[g].call].kind = "group"
                      /\ reduceCalls[groups[g].call].group = g - 1
                      /\ reduceCalls[groups[g].call].level = red.level
                      /\ reduceCalls[groups[g].call].input = groups[g].items
                /\ \A g, h \in 1..total : g < h => groups[g].call < groups[h].call)
    /\ [](Cardinality(CallsOfKind("summarize")) <= 1)
    /\ [][ (red.pc = "groups" /\ red'.pc # "groups") =>
               /\ \A g \in DOMAIN groups : groups[g].state # "invoking"
               /\ Len(red'.input) = Len(groups)
               /\ \A g \in DOMAIN groups : red'.input[g] = groups[g].summary
               /\ reduceCalls' = reduceCalls
               /\ IF Len(groups) > fanin
                  THEN red'.pc = "hierarchical" /\ red'.level = red.level + 1
                  ELSE red'.pc = "summarize" ]_vars

C16_Witness ==
    /\ fanin = 20
    /\ Len(batchResults) = 45
    /\ reduceConfig.strategy = "hierarchical"
    /\ Len(groups) = 3
    /\ Len(groups[1].items) = 20
    /\ Len(groups[2].items) = 20
    /\ Len(groups[3].items) = 5
    /\ Cardinality(CallsOfKind("group")) = 3
    /\ Cardinality(CallsOfKind("summarize")) = 1
    /\ Len(red.input) = 3
    /\ red.pc = "returned"

(* C17: a group whose worker call fails contributes the concatenation of   *)
(* its own inputs; the failure leaves the level running and the other      *)
(* groups' summaries as they are                                           *)
C17_GroupFallback ==
    /\ [](\A g \in DOMAIN groups :
             /\ groups[g].state = "failed" =>
                   /\ groups[g].summary = reduceConcatenate(groups[g].items)
                   /\ groups[g].summary # <<>>
                   /\ reduceCalls[groups[g].call].outcome = "err"
             /\ groups[g].state = "ok" =>
                   /\ Len(groups[g].summary) = 1
                   /\ groups[g].summary[1].t = "summary_of_context_group"
                   /\ groups[g].summary[1].a = g)
    /\ [][ \A g \in DOMAIN groups :
              (groups[g].state = "invoking" /\ g \in DOMAIN groups'
               /\ groups'[g].state = "failed") =>
                  /\ red' = red
                  /\ DOMAIN groups' = DOMAIN groups
                  /\ \A h \in DOMAIN groups : h # g => groups'[h] = groups[h] ]_vars

C17_Witness ==
    /\ Len(groups) = 3
    /\ groups[1].state = "ok"
    /\ groups[2].state = "failed"
    /\ groups[3].state = "ok"
    /\ red.pc = "invoking"
    /\ red.input = GroupSummaries(groups)

(* C18: every level is a join barrier: the worker calls in flight at any   *)
(* moment all belong to one level, and a final summarize pass is never in  *)
(* flight together with a group call                                       *)
C18_LevelBarrier ==
    /\ \A j, k \in inflight :
          /\ reduceCalls[j].kind = reduceCalls[k].kind
          /\ reduceCalls[j].level = reduceCalls[k].level
    /\ red.pc # "groups" => \A k \in inflight : reduceCalls[k].kind # "group"
    /\ red.pc = "groups" => \A k \in inflight : reduceCalls[k].level = red.level

C18_Witness ==
    /\ red.pc = "groups"
    /\ red.level = 1
    /\ inflight # {}
    /\ \E k \in CallsOfKind("group") : reduceCalls[k].level = 0 /\ reduceCalls[k].outcome = "err"

(* C20: reduceConcatenate returns a single result as it is; two or more    *)
(* results come back in order, result i under the heading 'Batch i of N',  *)
(* separated by dividers; no worker is called and the call does not fail   *)
C20_Concatenate ==
    EffectiveStrategy(reduceConfig.strategy) = "concatenate" =>
        /\ red.pc \in {"idle", "returned"}
        /\ reduceCalls = <<>>
        /\ red.pc = "returned" =>
              LET n == Len(batchResults)
              IN  /\ n = 1 => reduceResult = batchResults[1]
                  /\ n >= 2 =>
                        /\ Len(reduceResult) = 3 * n - 1
                        /\ \A i \in 1..n :
                              /\ reduceResult[3 * i - 2].t = "heading"
                              /\ reduceResult[3 * i - 2].a = i
                              /\ reduceResult[3 * i - 2].b = n
                              /\ reduceResult[3 * i - 1] = batchResults[i][1]
                              /\ i < n => reduceResult[3 * i].t = "divider"

C20_Witness ==
    /\ reduceConfig.strategy = "concatenate"
    /\ Len(batchResults) = 2
    /\ red.pc = "returned"
    /\ Len(reduceResult) = 5

(* ---------- progress counters, status, fresh contexts, backoff, slots ---------- *)
TerminalCount(bs) == Cardinality({i \in DOMAIN bs : bs[i].status \in Terminal})

CallbackCalls(ev) == {e \in ev : e[1] = "onBatchComplete"}

BecomesTerminal(i) == batches[i].status \notin Terminal /\ batches'[i].status \in Terminal

(* C21: the completed and failed counters never decrease; when a callback  *)
(* is configured, onBatchComplete is called exactly once per batch, in the *)
(* step in which the batch becomes terminal, with that batch's BatchResult *)
(* and a snapshot whose completed + failed is the number of terminal       *)
(* batches at that moment (one more than before) and whose total is the    *)
(* batch count; no other step calls it                                     *)
C21_ProgressSnapshots ==
    /\ [](config.hasCallback =>
            \A i \in Ids :
               Cardinality({e \in CallbackCalls(emitted) : e[2].batchIndex = batches[i].index})
                  = IF batches[i].status \in Terminal THEN 1 ELSE 0)
    /\ [][/\ completed' >= completed
          /\ failed' >= failed
          /\ config.hasCallback =>
               /\ \A i \in Ids :
                     BecomesTerminal(i) =>
                        \E e \in CallbackCalls(emitted') :
                           /\ CallbackCalls(emitted') \ CallbackCalls(emitted) = {e}
                           /\ e[2] = results'[batches[i].index]
                           /\ e[2].batchIndex = batches[i].index
                           /\ e[3] = completed'
                           /\ e[4] = failed'
                           /\ e[3] + e[4] = TerminalCount(batches')
                           /\ e[3] + e[4] = completed + failed + 1
                           /\ e[5] = N
               /\ (\A i \in Ids : ~BecomesTerminal(i)) =>
                     CallbackCalls(emitted') = CallbackCalls(emitted)]_vars

C21_Witness ==
    /\ config.hasCallback
    /\ N = 3
    /\ completed = 1
    /\ failed = 1
    /\ \E e1, e2 \in CallbackCalls(emitted) :
          /\ e1[3] + e1[4] = 1
          /\ e2[3] + e2[4] = 2
          /\ e1[2].success # e2[2].success
          /\ e1[5] = 3
          /\ e2[5] = 3

(* C22: a batch's status changes only pending -> processing and            *)
(* processing -> completed or failed: never pending -> terminal, never     *)
(* back to pending or processing, and a terminal status never changes      *)
C22_StatusTransitions ==
    [][\A i \in Ids :
          batches'[i].status # batches[i].status =>
             <<batches[i].status, batches'[i].status>> \in
                {<<"pending", "processing">>,
                 <<"processing", "completed">>,
                 <<"processing", "failed">>}]_vars

C22_Witness ==
    /\ \E i \in Ids : batches[i].status = "completed"
    /\ \E i \in Ids : batches[i].status = "failed"
    /\ \E i \in Ids : batches[i].status = "processing" /\ batches[i].retries > 0

InvokeAgentCalls(ev) == {e \in ev : e[1] = "invokeAgent"}

(* one specification that runs either the pool or the reducer *)
InitWorkers == Init \/ InitReduce

NextWorkers ==
    \/ pool.pc # "idle" /\ Next
    \/ pool.pc = "idle" /\ NextReduce

SpecWorkers == InitWorkers /\ [][NextWorkers]_vars

(* C23: every invokeAgent call of the pool (each attempt of each batch)    *)
(* and of the reducer (the summarize pass and each group pass) passes      *)
(* shouldReset = true                                                      *)
C23_AlwaysFresh ==
    /\ \A e \in InvokeAgentCalls(emitted) : e[4] = TRUE
    /\ \A i \in Ids : Cardinality({e \in InvokeAgentCalls(emitted) : e[2] = batches[i].index})
                         = invoked[i]
    /\ \A k \in DOMAIN reduceCalls : reduceCalls[k].fresh = TRUE

C23_Witness ==
    /\ \E k \in DOMAIN reduceCalls : reduceCalls[k].kind = "summarize"
    /\ \E k \in DOMAIN reduceCalls : reduceCalls[k].kind = "group"
    /\ \A k \in DOMAIN reduceCalls : reduceCalls[k].fresh

(* C24: a batch sleeps 2000 ms * 2^(k-1) before its attempt k >= 1 (2000   *)
(* before the second attempt, 4000 before the third), whatever the other   *)
(* batches do; it does not sleep before its first attempt nor after its    *)
(* last failed attempt.  task[i].delay is the last delay batch i slept.    *)
C24_Backoff ==
    \A i \in Ids :
       /\ task[i].attempt = 0 => task[i].pc # "sleeping" /\ task[i].delay = 0
       /\ task[i].attempt >= 1 =>
             /\ task[i].attempt <= max_retries
             /\ task[i].pc \in {"sleeping", "invoking", "done", "threw"}
             /\ task[i].delay = backoff_base_ms * Pow2(task[i].attempt - 1)
             /\ task[i].attempt = 1 => task[i].delay = 2000
             /\ task[i].attempt = 2 => task[i].delay = 4000
       /\ task[i].pc = "sleeping" =>
             /\ invoked[i] = task[i].attempt
             /\ Len(calls[i]) = task[i].attempt
             /\ AllErr(calls[i])
       /\ (Len(calls[i]) = max_retries + 1 /\ AllErr(calls[i])) =>
             /\ task[i].pc \in {"done", "threw"}
             /\ task[i].delay = 4000

C24_Witness ==
    \E i, j \in Ids :
       /\ task[i].pc = "sleeping" /\ task[i].delay = 2000 /\ invoked[i] = 1
       /\ task[j].pc = "sleeping" /\ task[j].delay = 4000 /\ invoked[j] = 2

(* C30: a slot of the results array is written exactly once, in the step   *)
(* in which the task of the batch with that index settles; a written slot  *)
(* never changes, no step writes a slot of another batch, and when the     *)
(* pool resolves every slot has been written                               *)
C30_SlotWrittenOnce ==
    /\ [](pool.pc = "resolved" => DOMAIN results = Ids)
    /\ [][/\ \A k \in DOMAIN results : k \in DOMAIN results' /\ results'[k] = results[k]
          /\ \A k \in DOMAIN results' \ DOMAIN results :
                /\ k \in Ids
                /\ batches[k].index = k
                /\ results'[k].batchIndex = k
                /\ task[k].pc = "invoking"
                /\ task'[k].pc \in {"done", "threw"}
          /\ \A i \in Ids :
                (task[i].pc = "invoking" /\ task'[i].pc \in {"done", "threw"}) =>
                   /\ i \notin DOMAIN results
                   /\ DOMAIN results' = DOMAIN results \cup {i}]_vars

C30_Witness ==
    /\ N = 3
    /\ DOMAIN results = {0, 2}
    /\ results[0].success
    /\ ~results[2].success
    /\ task[1].pc = "invoking"

(* ---------- batch-splitter.ts: resolveTemplateParams ---------- *)
(* A template is a sequence of pieces, each a literal text or a {{name}}   *)
(* placeholder.  The user message is a sequence of words separated by      *)
(* white space; a word is plain text, a name=value token or a              *)
(* backtick-delimited substring, and v is the text the regular             *)
(* expressions of the function look at.                                    *)
MaxTemplateLen == 2
MaxMessageLen == 2

Piece(k, n, v) == [k |-> k, n |-> n, v |-> v]

TextPiece(v) == Piece("text", "", v)

Placeholder(name) == Piece("ph", name, "")

PlainWord(v) == Piece("word", "", v)

KeyValue(name, v) == Piece("kv", name, v)

Backticked(v) == Piece("tick", "", v)

TemplatePieces ==
    {TextPiece("cmd"), Placeholder("repo"), Placeholder("limit"), Placeholder("Limit"),
     Placeholder("name"), Placeholder("constructor")}

MessageWords ==
    {PlainWord("x"), PlainWord("o/r"), PlainWord("9999"),
     KeyValue("limit", "50"), KeyValue("LIMIT", "60"), KeyValue("repo", "a/b"),
     KeyValue("name", "v"), KeyValue("name", "$&"), KeyValue("name", "{{limit}}"),
     Backticked("ls"), Backticked("o/r")}

(* a text read as a piece: the text {{limit}} is that placeholder *)
AsPiece(text) == IF text = "{{limit}}" THEN Placeholder("limit") ELSE TextPiece(text)

(* String.prototype.toLowerCase on the names in use *)
toLowerCase(name) ==
    CASE name = "LIMIT" -> "limit"
      [] name = "Limit" -> "limit"
      [] OTHER -> name

(* lines 28-33: the names of the placeholders, in order, repeats included *)
RECURSIVE ParamsFrom(_, _)
ParamsFrom(tpl, i) ==
    IF i > Len(tpl) THEN <<>>
    ELSE IF tpl[i].k = "ph" THEN <<tpl[i].n>> \o ParamsFrom(tpl, i + 1)
    ELSE ParamsFrom(tpl, i + 1)

(* lines 40-45: kvMap, a later token of the same lower-cased name wins *)
RECURSIVE KvScan(_, _, _)
KvScan(msg, i, map) ==
    IF i > Len(msg) THEN map
    ELSE IF msg[i].k = "kv"
         THEN LET key == toLowerCase(msg[i].n)
              IN  KvScan(msg, i + 1,
                         [q \in DOMAIN map \cup {key} |-> IF q = key THEN msg[i].v ELSE map[q]])
         ELSE KvScan(msg, i + 1, map)

(* line 41: kvMap is an object literal, so it inherits the properties of   *)
(* Object.prototype; kvMap['constructor'] is the function Object           *)
ObjectFunction == "function Object"

InheritedKeys == {"constructor"}

(* line 48: kvMap[param.toLowerCase()] *)
KvGet(map, key) ==
    IF key \in DOMAIN map THEN map[key]
    ELSE IF key \in InheritedKeys THEN ObjectFunction
    ELSE Undefined

(* line 55: /\b([\w.-]+\/[\w.-]+)\b/ finds an owner/name shape in the text *)
RepoShaped(v) == v \in {"o/r", "a/b"}

(* line 64: /\b(\d{2,})\b/ finds a number of two or more digits in the text *)
TwoDigits(v) == v \in {"50", "60", "9999"}

(* String.prototype.match without the g flag: the first match in the message *)
FirstWord(msg, S) ==
    IF S = {} THEN Undefined
    ELSE msg[CHOOSE i \in S : \A j \in S : i <= j].v

repoMatch(msg) == FirstWord(msg, {i \in 1..Len(msg) : RepoShaped(msg[i].v)})

numMatch(msg) == FirstWord(msg, {i \in 1..Len(msg) : TwoDigits(msg[i].v)})

(* line 72: /`([^`]+)`/ *)
backtickMatch(msg) == FirstWord(msg, {i \in 1..Len(msg) : msg[i].k = "tick"})

(* what replace() puts in place of the matched text: '$&' in a replacement *)
(* string stands for the matched text itself; a function is called with    *)
(* the matched text, and Object(text) converts back to that text           *)
Substitution(value, matched) ==
    IF value = "$&" \/ value = ObjectFunction THEN matched
    ELSE AsPiece(value)

(* resolved.replace(`{{${param}}}`, value): the first occurrence only *)
ReplaceFirst(text, param, value) ==
    LET occ == {i \in 1..Len(text) : text[i] = Placeholder(param)}
    IN  IF occ = {} THEN text
        ELSE LET i == CHOOSE i \in occ : \A j \in occ : i <= j
             IN  [text EXCEPT ![i] = Substitution(value, text[i])]

ParamRuleHeuristicsFirst(param, msg, map) ==
    IF param = "repo" /\ repoMatch(msg) # Undefined
    THEN [param |-> param, rule |-> "repo", value |-> repoMatch(msg)]
    ELSE IF param = "limit" /\ numMatch(msg) # Undefined
    THEN [param |-> param, rule |-> "limit", value |-> numMatch(msg)]
    ELSE IF KvGet(map, toLowerCase(param)) # Undefined
    THEN [param |-> param, rule |-> "kv", value |-> KvGet(map, toLowerCase(param))]
    ELSE IF backtickMatch(msg) # Undefined
    THEN [param |-> param, rule |-> "backtick", value |-> backtickMatch(msg)]
    ELSE [param |-> param, rule |-> "none", value |-> Undefined]

(* lines 48-76: the branch one iteration of the loop takes *)
ParamRule(param, msg, map) ==
    IF KvGet(map, toLowerCase(param)) # Undefined
    THEN [param |-> param, rule |-> "kv", value |-> KvGet(map, toLowerCase(param))]
    ELSE IF param = "repo" /\ repoMatch(msg) # Undefined
    THEN [param |-> param, rule |-> "repo", value |-> repoMatch(msg)]
    ELSE IF param = "limit" /\ numMatch(msg) # Undefined
    THEN [param |-> param, rule |-> "limit", value |-> numMatch(msg)]
    ELSE IF backtickMatch(msg) # Undefined
    THEN [param |-> param, rule |-> "backtick", value |-> backtickMatch(msg)]
    ELSE [param |-> param, rule |-> "none", value |-> Undefined]

(* lines 47-79: the loop over params[k..] *)
RECURSIVE ResolveLoop(_, _, _, _, _, _)
ResolveLoop(params, k, text, msg, map, steps) ==
    IF k > Len(params)
    THEN [done |-> TRUE, via |-> "resolved", out |-> text, steps |-> steps]
    ELSE LET step == ParamRule(params[k], msg, map)
         IN  IF step.rule \in {"kv", "repo", "limit"}
             THEN ResolveLoop(params, k + 1, ReplaceFirst(text, params[k], step.value),
                              msg, map, Append(steps, step))
             ELSE IF step.rule = "backtick"
             THEN [done |-> TRUE, via |-> "backtick", out |-> <<AsPiece(step.value)>>,
                   steps |-> Append(steps, step)]
             ELSE ResolveLoop(params, k + 1, text, msg, map, Append(steps, step))

resolveTemplateParams(tpl, msg) ==
    LET params == ParamsFrom(tpl, 1)
    IN  IF Len(params) = 0
        THEN [done |-> TRUE, via |-> "template", out |-> tpl, steps |-> <<>>]
        ELSE ResolveLoop(params, 1, tpl, msg, KvScan(msg, 1, <<>>), <<>>)

InitTemplate ==
    /\ PoolIdle
    /\ ReduceIdle
    /\ items = <<>>
    /\ batchSize = 0
    /\ splitResult = [done |-> FALSE, out |-> <<>>]
    /\ ParseIdle
    /\ InputIdle
    /\ SemaphoreIdle
    /\ RenderIdle
    /\ template \in SeqsUpTo(TemplatePieces, MaxTemplateLen)
    /\ userMessage \in SeqsUpTo(MessageWords, MaxMessageLen)
    /\ resolved = [done |-> FALSE, via |-> Undefined, out |-> <<>>, steps |-> <<>>]

ResolveCall ==
    /\ ~resolved.done
    /\ resolved' = resolveTemplateParams(template, userMessage)
    /\ UNCHANGED <<template, userMessage, poolVars, reduceVars, items, batchSize,
                   splitResult, parseVars, inputVars, semVars, renderVars>>

NextTemplate == ResolveCall

SpecTemplate == InitTemplate /\ [][NextTemplate]_vars

(* derived notions: what the message offers for a placeholder name *)
NameTokens(msg, name) ==
    {i \in 1..Len(msg) : msg[i].k = "kv" /\ toLowerCase(msg[i].n) = toLowerCase(name)}

RepoWords(msg) == {i \in 1..Len(msg) : RepoShaped(msg[i].v)}

NumberWords(msg) == {i \in 1..Len(msg) : TwoDigits(msg[i].v)}

BacktickWords(msg) == {i \in 1..Len(msg) : msg[i].k = "tick"}

RuleResolves(name, msg) ==
    \/ NameTokens(msg, name) # {}
    \/ name = "repo" /\ RepoWords(msg) # {}
    \/ name = "limit" /\ NumberWords(msg) # {}

(* the values the key=value, repo and limit rules offer for the name *)
RuleValues(name, msg) ==
    IF NameTokens(msg, name) # {} THEN {msg[i].v : i \in NameTokens(msg, name)}
    ELSE IF name = "repo" THEN {msg[i].v : i \in RepoWords(msg)}
    ELSE IF name = "limit" THEN {msg[i].v : i \in NumberWords(msg)}
    ELSE {}

PlaceholdersAt(tpl) == {p \in 1..Len(tpl) : tpl[p].k = "ph"}

Unresolved(tpl, msg) == {p \in PlaceholdersAt(tpl) : ~RuleResolves(tpl[p].n, msg)}

WithoutBackticks(msg) == SelectSeq(msg, LAMBDA w : w.k # "tick")

(* the values replace() inserts as they are written *)
Verbatim(v) == Substitution(v, Placeholder("name")) = TextPiece(v)

(* C25: a name=value token whose name equals the placeholder's name up to  *)
(* letter case decides the placeholder (repo and limit included): the loop *)
(* takes the key=value branch with a token's value, and takes the repo or  *)
(* limit heuristic only when the message has no token of that name; with   *)
(* values that replace() inserts verbatim the token's value is what stands *)
(* in the output at the placeholder                                        *)
C25_KeyValuePriority ==
    resolved.done =>
       /\ \A k \in 1..Len(resolved.steps) :
             LET step == resolved.steps[k]
                 toks == NameTokens(userMessage, step.param)
             IN  /\ toks # {} =>
                       /\ step.rule = "kv"
                       /\ \E i \in toks : step.value = userMessage[i].v
                 /\ step.rule \in {"repo", "limit"} => toks = {}
       /\ (/\ resolved.via = "resolved"
           /\ \A i \in 1..Len(userMessage) : Verbatim(userMessage[i].v)) =>
             \A p \in PlaceholdersAt(template) :
                NameTokens(userMessage, template[p].n) # {} =>
                   \E i \in NameTokens(userMessage, template[p].n) :
                      resolved.out[p] = TextPiece(userMessage[i].v)

C25_Witness ==
    /\ resolved.done
    /\ template = <<Placeholder("limit"), Placeholder("repo")>>
    /\ userMessage = <<KeyValue("LIMIT", "60"), PlainWord("9999")>>
    /\ resolved.out = <<TextPiece("60"), Placeholder("repo")>>

(* C26: when some placeholder is resolved by none of the key=value, repo   *)
(* and limit rules and the message has a backtick-delimited substring, the *)
(* result is exactly the first such substring and the loop stops at the    *)
(* first such placeholder; when every placeholder is resolved by the       *)
(* rules, the result is what it is for the message without its backtick    *)
(* substrings                                                              *)
C26_BacktickShortCircuit ==
    resolved.done =>
       /\ (Unresolved(template, userMessage) # {} /\ BacktickWords(userMessage) # {}) =>
             /\ resolved.out = <<TextPiece(backtickMatch(userMessage))>>
             /\ \E p \in Unresolved(template, userMessage) :
                   /\ \A q \in Unresolved(template, userMessage) : p <= q
                   /\ Len(resolved.steps) =
                         Cardinality({q \in PlaceholdersAt(template) : q <= p})
       /\ (PlaceholdersAt(template) # {} /\ Unresolved(template, userMessage) = {}) =>
             resolved.out = resolveTemplateParams(template, WithoutBackticks(userMessage)).out

(* C27: a template without placeholder is returned as it is; when the      *)
(* message has no backtick-delimited substring the output is the template  *)
(* with each placeholder that a rule resolves replaced by the rule's value *)
(* and every other piece, unresolved placeholders included, unchanged      *)
C27_TemplateFrame ==
    resolved.done =>
       /\ PlaceholdersAt(template) = {} => resolved.out = template
       /\ BacktickWords(userMessage) = {} =>
             /\ Len(resolved.out) = Len(template)
             /\ \A p \in 1..Len(template) :
                   IF template[p].k = "ph" /\ RuleResolves(template[p].n, userMessage)
                   THEN \E v \in RuleValues(template[p].n, userMessage) :
                           resolved.out[p] = AsPiece(v)
                   ELSE resolved.out[p] = template[p]

(* ---------- batch-splitter.ts: parseItems, extractInlineItems ---------- *)
(* A raw text (file content, command output, message) is a sequence of     *)
(* lexemes, adjacent in the text: brackets, comma, the JSON string "a",    *)
(* the digit 1, the letter x, a backtick, a space and a newline.           *)
MaxRawLen == 4

LBracket == "["

RBracket == "]"

Comma == ","

QuotedA == "\"a\""

Digit == "1"

Letter == "x"

(* the backtick character *)
Backtick == "backtick"

Space == " "

Newline == "\n"

RawLexemes == {LBracket, RBracket, Comma, QuotedA, Digit, Space, Newline}

Whitespace == {Space, Newline}

(* ----- JSON.parse on a raw text ----- *)
RECURSIVE SkipWhitespace(_, _)
SkipWhitespace(t, i) ==
    IF i <= Len(t) /\ t[i] \in Whitespace THEN SkipWhitespace(t, i + 1) ELSE i

RECURSIVE DigitsEnd(_, _)
DigitsEnd(t, i) == IF i <= Len(t) /\ t[i] = Digit THEN DigitsEnd(t, i + 1) ELSE i

(* SyntaxError *)
NoParse ==
    [ok |-> FALSE, kind |-> "none", item |-> <<>>, items |-> <<>>, json |-> <<>>, next |-> 0]

(* a parsed value: its kind, the item it maps to at lines 120-122 (the     *)
(* string itself, else JSON.stringify of it), the items of an array, its   *)
(* JSON.stringify text, and the position after it                          *)
Parsed(kind, item, its, json, next) ==
    [ok |-> TRUE, kind |-> kind, item |-> item, items |-> its, json |-> json, next |-> next]

RECURSIVE ParseValue(_, _)
RECURSIVE ParseElements(_, _, _, _)
ParseValue(t, from) ==
    LET i == SkipWhitespace(t, from)
    IN  IF i > Len(t) THEN NoParse
        ELSE IF t[i] = QuotedA THEN Parsed("string", <<"a">>, <<>>, <<QuotedA>>, i + 1)
        ELSE IF t[i] = Digit
        THEN LET e == DigitsEnd(t, i)
             IN  Parsed("number", SubSeq(t, i, e - 1), <<>>, SubSeq(t, i, e - 1), e)
        ELSE IF t[i] = LBracket
        THEN LET j == SkipWhitespace(t, i + 1)
             IN  IF j <= Len(t) /\ t[j] = RBracket
                 THEN Parsed("array", <<LBracket, RBracket>>, <<>>, <<LBracket, RBracket>>, j + 1)
                 ELSE ParseElements(t, i + 1, <<>>, <<LBracket>>)
        ELSE NoParse

ParseElements(t, from, its, json) ==
    LET v == ParseValue(t, from)
    IN  IF ~v.ok THEN NoParse
        ELSE LET j == SkipWhitespace(t, v.next)
                 its2 == Append(its, v.item)
                 json2 == json \o v.json
             IN  IF j > Len(t) THEN NoParse
                 ELSE IF t[j] = Comma THEN ParseElements(t, j + 1, its2, json2 \o <<Comma>>)
                 ELSE IF t[j] = RBracket
                 THEN Parsed("array", json2 \o <<RBracket>>, its2, json2 \o <<RBracket>>, j + 1)
                 ELSE NoParse

JSONParse(t) ==
    LET v == ParseValue(t, 1)
    IN  IF v.ok /\ SkipWhitespace(t, v.next) > Len(t) THEN v ELSE NoParse

(* Array.isArray(JSON.parse(t)), false when JSON.parse throws *)
ParsesToArray(t) == JSONParse(t).ok /\ JSONParse(t).kind = "array"

(* ----- line 131: raw.split('\n').map(l => l.trim()).filter(Boolean) ----- *)
RECURSIVE SplitFrom(_, _, _)
SplitFrom(t, i, cur) ==
    IF i > Len(t) THEN <<cur>>
    ELSE IF t[i] = Newline THEN <<cur>> \o SplitFrom(t, i + 1, <<>>)
    ELSE SplitFrom(t, i + 1, Append(cur, t[i]))

RECURSIVE trim(_)
trim(l) ==
    IF l = <<>> THEN l
    ELSE IF Head(l) \in Whitespace THEN trim(Tail(l))
    ELSE IF l[Len(l)] \in Whitespace THEN trim(SubSeq(l, 1, Len(l) - 1))
    ELSE l

LineItems(t) ==
    LET lines == SplitFrom(t, 1, <<>>)
    IN  SelectSeq([k \in 1..Len(lines) |-> trim(lines[k])], LAMBDA l : l # <<>>)

parseItemsNoFallback(rawText, t) ==
    IF t = "json_array"
    THEN IF ParsesToArray(rawText) THEN JSONParse(rawText).items ELSE <<>>
    ELSE LineItems(rawText)

(* parseItems, lines 115-132 *)
parseItems(rawText, t) ==
    IF t = "json_array" /\ ParsesToArray(rawText)
    THEN JSONParse(rawText).items
    ELSE LineItems(rawText)

(* line 140: /\[[\s\S]*\]/, from the first '[' to the last ']' after it *)
jsonMatch(msg) ==
    LET opens == {i \in 1..Len(msg) : msg[i] = LBracket}
    IN  IF opens = {} THEN [found |-> FALSE, text |-> <<>>]
        ELSE LET first == CHOOSE i \in opens : \A j \in opens : i <= j
                 closes == {j \in (first + 1)..Len(msg) : msg[j] = RBracket}
             IN  IF closes = {} THEN [found |-> FALSE, text |-> <<>>]
                 ELSE [found |-> TRUE,
                       text |-> SubSeq(msg, first, CHOOSE j \in closes : \A q \in closes : q <= j)]

(* null *)
NoInlineItems == [found |-> FALSE, items |-> <<>>]

extractInlineItemsEmptyList(msg) ==
    IF jsonMatch(msg).found /\ ParsesToArray(jsonMatch(msg).text)
    THEN [found |-> TRUE, items |-> JSONParse(jsonMatch(msg).text).items]
    ELSE NoInlineItems

(* extractInlineItems, lines 138-155 *)
extractInlineItems(msg) ==
    IF /\ jsonMatch(msg).found
       /\ ParsesToArray(jsonMatch(msg).text)
       /\ Len(JSONParse(jsonMatch(msg).text).items) > 0
    THEN [found |-> TRUE, items |-> JSONParse(jsonMatch(msg).text).items]
    ELSE NoInlineItems

InitParse ==
    /\ PoolIdle
    /\ ReduceIdle
    /\ items = <<>>
    /\ batchSize = 0
    /\ splitResult = [done |-> FALSE, out |-> <<>>]
    /\ TemplateIdle
    /\ InputIdle
    /\ SemaphoreIdle
    /\ RenderIdle
    /\ \/ /\ raw \in SeqsUpTo(RawLexemes, MaxRawLen)
          /\ type \in {"lines", "json_array"}
          /\ message = <<>>
          /\ parseCall = [fn |-> "parseItems", done |-> FALSE, found |-> FALSE, out |-> <<>>]
       \/ /\ raw = <<>>
          /\ type = Undefined
          /\ message \in SeqsUpTo(RawLexemes, MaxRawLen)
          /\ parseCall = [fn |-> "extractInlineItems", done |-> FALSE, found |-> FALSE,
                          out |-> <<>>]

ParseItemsCall ==
    /\ parseCall.fn = "parseItems"
    /\ ~parseCall.done
    /\ parseCall' = [parseCall EXCEPT !.done = TRUE, !.out = parseItems(raw, type)]
    /\ UNCHANGED <<raw, type, message, poolVars, reduceVars, items, batchSize,
                   splitResult, templateVars, inputVars, semVars, renderVars>>

ExtractInlineItemsCall ==
    /\ parseCall.fn = "extractInlineItems"
    /\ ~parseCall.done
    /\ parseCall' = [parseCall EXCEPT !.done = TRUE,
                                      !.found = extractInlineItems(message).found,
                                      !.out = extractInlineItems(message).items]
    /\ UNCHANGED <<raw, type, message, poolVars, reduceVars, items, batchSize,
                   splitResult, templateVars, inputVars, semVars, renderVars>>

NextParse == ParseItemsCall \/ ExtractInlineItemsCall

SpecParse == InitParse /\ [][NextParse]_vars

(* the text without its white space *)
Squeezed(t) == SelectSeq(t, LAMBDA c : c \notin Whitespace)

RECURSIVE Flatten(_)
Flatten(ls) == IF ls = <<>> THEN <<>> ELSE Head(ls) \o Flatten(Tail(ls))

(* the item lists of the bracketed literals of the message that parse to a *)
(* non-empty array                                                         *)
BracketedArrays(msg) ==
    {JSONParse(SubSeq(msg, i, j)).items :
        <<i, j>> \in {q \in (1..Len(msg)) \X (1..Len(msg)) :
                         /\ q[1] < q[2]
                         /\ msg[q[1]] = LBracket
                         /\ msg[q[2]] = RBracket
                         /\ ParsesToArray(SubSeq(msg, q[1], q[2]))
                         /\ Len(JSONParse(SubSeq(msg, q[1], q[2])).items) > 0}}

MaxMessagePieces == 3
MaxFiles == 1

MessagePieces ==
    {<<LBracket, QuotedA, RBracket>>, <<LBracket, RBracket>>,
     <<Backtick, Letter, Backtick>>, <<Letter>>, <<Newline>>}

FileContents == {<<>>, <<Digit>>, <<LBracket, QuotedA, RBracket>>}

Files == {[exists |-> FALSE, content |-> <<>>]} \cup
         {[exists |-> TRUE, content |-> c] : c \in FileContents}

CommandOutputs == {<<>>, <<Digit, Newline, Digit>>, <<LBracket, QuotedA, Comma, Digit, RBracket>>}

(* line 184, 200, 212: config.input?.type || 'lines' *)
EffectiveType(t) == IF t = Undefined THEN "lines" ELSE t

(* lines 180-187: the items of the attached files that exist, in order *)
RECURSIVE FileItems(_, _, _)
FileItems(files, k, t) ==
    IF k > Len(files) THEN <<>>
    ELSE (IF files[k].exists THEN parseItems(files[k].content, t) ELSE <<>>)
         \o FileItems(files, k + 1, t)

(* line 207: /`([^`]+)`/ on the message: the first backtick followed by at *)
(* least one other character and a backtick                                *)
RECURSIVE BacktickFrom(_, _)
BacktickFrom(msg, i) ==
    IF i > Len(msg) THEN [found |-> FALSE, text |-> <<>>]
    ELSE IF msg[i] # Backtick THEN BacktickFrom(msg, i + 1)
    ELSE LET later == {j \in (i + 1)..Len(msg) : msg[j] = Backtick}
         IN  IF later = {} THEN [found |-> FALSE, text |-> <<>>]
             ELSE LET j == CHOOSE j \in later : \A q \in later : j <= q
                  IN  IF j > i + 1 THEN [found |-> TRUE, text |-> SubSeq(msg, i + 1, j - 1)]
                      ELSE BacktickFrom(msg, i + 1)

InputCall(pc, source, its, output) ==
    [pc |-> pc, source |-> source, items |-> its, output |-> output]

InitInput ==
    /\ PoolIdle
    /\ ReduceIdle
    /\ items = <<>>
    /\ batchSize = 0
    /\ splitResult = [done |-> FALSE, out |-> <<>>]
    /\ TemplateIdle
    /\ ParseIdle
    /\ SemaphoreIdle
    /\ RenderIdle
    /\ inputMessage \in {Flatten(ps) : ps \in SeqsUpTo(MessagePieces, MaxMessagePieces)}
    /\ attachedFiles \in SeqsUpTo(Files, MaxFiles)
    /\ configInput \in [command : BOOLEAN, type : {Undefined, "json_array"}]
    /\ inputCall = InputCall("called", Undefined, <<>>, <<>>)

(* lines 171-225 up to the first await or return *)
ResolveInputStart ==
    /\ inputCall.pc = "called"
    /\ LET inlineItems == extractInlineItems(inputMessage)
           allItems == FileItems(attachedFiles, 1, EffectiveType(configInput.type))
           lines == LineItems(inputMessage)
       IN  inputCall' =
              IF inlineItems.found /\ Len(inlineItems.items) > 0
              THEN InputCall("returned", "inline", inlineItems.items, <<>>)
              ELSE IF Len(attachedFiles) > 0 /\ Len(allItems) > 0
              THEN InputCall("returned", "files", allItems, <<>>)
              ELSE IF configInput.command
              THEN InputCall("running", "command", <<>>, <<>>)
              ELSE IF BacktickFrom(inputMessage, 1).found
              THEN InputCall("running", "backtick", <<>>, <<>>)
              ELSE IF Len(lines) > 1
              THEN InputCall("returned", "lines", lines, <<>>)
              ELSE InputCall("returned", "none", <<>>, <<>>)
    /\ UNCHANGED <<configInput, inputMessage, attachedFiles, poolVars, reduceVars, items,
                   batchSize, splitResult, templateVars, parseVars, semVars, renderVars>>

(* runShellCommand resolves with the captured stdout: lines 200-203, 212-215 *)
CommandCloses(output) ==
    /\ inputCall.pc = "running"
    /\ inputCall' = InputCall("returned", inputCall.source,
                              parseItems(output, EffectiveType(configInput.type)), output)
    /\ UNCHANGED <<configInput, inputMessage, attachedFiles, poolVars, reduceVars, items,
                   batchSize, splitResult, templateVars, parseVars, semVars, renderVars>>

(* runShellCommand rejects (spawn error or non-zero exit code) *)
CommandFails ==
    /\ inputCall.pc = "running"
    /\ inputCall' = InputCall("rejected", inputCall.source, <<>>, <<>>)
    /\ UNCHANGED <<configInput, inputMessage, attachedFiles, poolVars, reduceVars, items,
                   batchSize, splitResult, templateVars, parseVars, semVars, renderVars>>

NextInput ==
    \/ ResolveInputStart
    \/ \E output \in CommandOutputs : CommandCloses(output)
    \/ CommandFails

SpecInput == InitInput /\ [][NextInput]_vars

(* the message has a backtick-delimited substring *)
HasBacktickCommand(msg) ==
    \E i, j \in 1..Len(msg) :
       /\ i + 1 < j
       /\ msg[i] = Backtick
       /\ msg[j] = Backtick
       /\ \A q \in (i + 1)..(j - 1) : msg[q] # Backtick

(* C28: the items come from the first source that applies, in the order    *)
(* (1) a non-empty inline array in the message, (2) the items parsed from  *)
(* the attached files, (3) the output of the configured command, (4) the   *)
(* output of a backtick-delimited command of the message, (5) the          *)
(* non-empty lines of the message when there is more than one; otherwise   *)
(* there are no items                                                      *)
C28_SourcePriority ==
    inputCall.pc \in {"running", "returned", "rejected"} =>
       LET arrays == BracketedArrays(inputMessage)
           fileItems == FileItems(attachedFiles, 1, EffectiveType(configInput.type))
           lines == LineItems(inputMessage)
           returned_ == inputCall.pc = "returned"
           parsed == parseItems(inputCall.output, EffectiveType(configInput.type))
       IN  IF arrays # {}
           THEN inputCall.source = "inline" /\ inputCall.items \in arrays
           ELSE IF fileItems # <<>>
           THEN inputCall.source = "files" /\ inputCall.items = fileItems
           ELSE IF configInput.command
           THEN inputCall.source = "command" /\ (returned_ => inputCall.items = parsed)
           ELSE IF HasBacktickCommand(inputMessage)
           THEN inputCall.source = "backtick" /\ (returned_ => inputCall.items = parsed)
           ELSE IF Len(lines) > 1
           THEN inputCall.source = "lines" /\ inputCall.items = lines
           ELSE inputCall.source = "none" /\ inputCall.items = <<>>

(* ---------- the gate over the life of a batch ---------- *)
Processing == {i \in Ids : batches[i].status = "processing"}

(* C33: a batch keeps its slot from its first attempt to its terminal      *)
(* state, backoff sleeps included: a batch that is attempting or sleeping  *)
(* has not released, the semaphore counts it, and while a batch waits at   *)
(* the gate the holders, sleepers included, fill the limit                 *)
C33_SlotKeptOverBackoff ==
    /\ \A i \in Ids :
          task[i].pc \in {"invoking", "sleeping"} => (i \in Holders /\ releases[i] = 0)
    /\ current = Cardinality(Holders)
    /\ current <= max
    /\ queue # <<>> => Cardinality(Holders) = max

C33_Witness ==
    /\ \E i \in Ids : task[i].pc = "sleeping" /\ task[i].attempt = 2
    /\ \A i \in Holders : task[i].pc = "sleeping"
    /\ queue # <<>>

(* C34: batches pass the gate in index order: when batch j has acquired    *)
(* its slot every batch of lower index has too, and when batch j has       *)
(* entered processing every batch of lower index has too                   *)
C34_IndexOrder ==
    \A i \in Ids, j \in Ids :
        i < j =>
          /\ task[j].pc \notin {"unstarted", "waiting"} =>
                 task[i].pc \notin {"unstarted", "waiting"}
          /\ batches[j].status # "pending" => batches[i].status # "pending"

C34_Witness ==
    /\ N >= 3
    /\ max = 2
    /\ batches[0].status = "processing"
    /\ batches[1].status = "failed"
    /\ batches[2].status = "processing"

(* C35: a batch has status processing only while it holds a slot, so at    *)
(* most `concurrency` batches are processing, and a batch waiting at the   *)
(* gate is still pending                                                   *)
C35_ProcessingHoldsSlot ==
    /\ \A i \in Processing : i \in Holders /\ releases[i] = 0
    /\ pool.pc # "init" => Cardinality(Processing) <= EffectiveConcurrency(config.concurrency)
    /\ Processing # {} => Cardinality(Processing) <= max
    /\ \A i \in Ids : task[i].pc = "waiting" => batches[i].status = "pending"

C35_Witness ==
    /\ Cardinality(Processing) = 2
    /\ max = 2
    /\ \E i \in Ids : task[i].pc = "waiting" /\ batches[i].status = "pending"
    /\ \E i \in Processing : task[i].pc = "sleeping"

(* ---------- progress of the pool ---------- *)
(* the indices a batch can have under the bounds *)
BatchIndices == 0..(MaxItems - 1)

(* invokeAgent settles, one way or the other *)
WorkerSettles(i) == WorkerSucceeds(i) \/ WorkerFailsRetry(i) \/ WorkerFailsExhausted(i)

(* the event loop runs every job that is ready, every worker invocation    *)
(* finishes and every backoff timer fires                                  *)
Fairness ==
    /\ WF_vars(PoolStart)
    /\ WF_vars(MapDone)
    /\ WF_vars(PoolResolve)
    /\ WF_vars(PoolReject)
    /\ \A i \in BatchIndices :
          /\ WF_vars(MapBatch(i))
          /\ WF_vars(BeginBatch(i))
          /\ WF_vars(WorkerSettles(i))
          /\ WF_vars(RetryBatch(i))

(* pools with a configured concurrency >= 1 over batches of one item *)
InitLive ==
    /\ Init
    /\ config.concurrency >= 1
    /\ \A i \in Ids : Len(batches[i].items) = 1

SpecLive == InitLive /\ [][Next]_vars /\ Fairness

CallbackThrew == \E i \in Ids : task[i].pc = "threw"

(* C31: when worker invocations and backoff sleeps finish and the callback *)
(* does not throw, the pool resolves with every batch completed or failed, *)
(* and a batch that waits at the gate gets past it                         *)
C31_PoolTerminates ==
    /\ <>(CallbackThrew \/ (pool.pc = "resolved" /\
                              \A i \in Ids : batches[i].status \in Terminal))
    /\ (\E i \in Ids : task[i].pc = "waiting") ~>
          (CallbackThrew \/ \A i \in Ids : batches[i].status \in Terminal)

C31_Witness ==
    /\ pool.pc = "resolved"
    /\ N >= 3
    /\ max = 1
    /\ \A i \in Ids : batches[i].status \in Terminal
    /\ \E i \in Ids : batches[i].status = "failed"
    /\ \E i \in Ids : batches[i].status = "completed"

(* ---------- telemetry of one pool run ---------- *)
StartEvents(ev) == {e \in ev : e[1] = "swarm_batch_start"}

BatchDoneEvents(ev) == {e \in ev : e[1] = "swarm_batch_done"}

PoolEvents(ev, name) == {e \in ev : e[1] = name}

(* C39: the telemetry events of a pool run are emitted in order:           *)
(* swarm_pool_start comes first; the swarm_batch_start events of a batch   *)
(* carry attempts 0, 1, ... in that order and none follows the batch's     *)
(* swarm_batch_done, of which there is at most one; each swarm_batch_done  *)
(* carries completed + failed one more than the one before it;             *)
(* swarm_pool_done is emitted once, when every batch has its               *)
(* swarm_batch_done, with completed + failed = total                       *)
C39_TelemetryOrder ==
    [][ \A e \in emitted' \ emitted :
          /\ e[1] = "swarm_pool_start" => emitted = {}
          /\ e[1] = "swarm_batch_start" =>
                /\ PoolEvents(emitted, "swarm_pool_start") # {}
                /\ PoolEvents(emitted, "swarm_pool_done") = {}
                /\ e[4] = Cardinality({s \in StartEvents(emitted) : s[2] = e[2]})
                /\ \A d \in BatchDoneEvents(emitted) : d[2] # e[2]
          /\ e[1] = "swarm_batch_done" =>
                /\ \E s \in StartEvents(emitted) : s[2] = e[2]
                /\ \A d \in BatchDoneEvents(emitted) : d[2] # e[2]
                /\ PoolEvents(emitted, "swarm_pool_done") = {}
                /\ e[4] + e[5] = Cardinality(BatchDoneEvents(emitted)) + 1
                /\ e[6] = N
          /\ e[1] = "swarm_pool_done" =>
                /\ PoolEvents(emitted, "swarm_pool_done") = {}
                /\ \A i \in Ids : \E d \in BatchDoneEvents(emitted) : d[2] = i
                /\ Cardinality(BatchDoneEvents(emitted)) = N
                /\ e[2] + e[3] = N
                /\ e[4] = N ]_vars

C39_Witness ==
    /\ N >= 2
    /\ PoolEvents(emitted, "swarm_pool_done") # {}
    /\ \E s \in StartEvents(emitted) : s[2] = 0 /\ s[4] = 2
    /\ \E d \in BatchDoneEvents(emitted) : d[2] = 1 /\ d[4] + d[5] = 1

(* ---------- worker-pool.ts: the Semaphore under any callers ---------- *)
MaxClients == 3
MaxCalls == 6

Clients == 1..MaxClients

(* lines 44-47: new Semaphore(max) *)
InitSemaphore ==
    /\ batches = <<>>
    /\ config = [concurrency |-> 0, hasCallback |-> FALSE]
    /\ pool = [pc |-> "idle", next |-> 0]
    /\ max \in 1..MaxConcurrency
    /\ current = 0
    /\ queue = <<>>
    /\ results = <<>>
    /\ completed = 0
    /\ failed = 0
    /\ task = <<>>
    /\ invoked = <<>>
    /\ calls = <<>>
    /\ thrown = <<>>
    /\ releases = <<>>
    /\ emitted = {}
    /\ returned = <<>>
    /\ ReduceIdle
    /\ items = <<>>
    /\ batchSize = 0
    /\ splitResult = [done |-> FALSE, out |-> <<>>]
    /\ TemplateIdle
    /\ ParseIdle
    /\ InputIdle
    /\ RenderIdle
    /\ clients = [c \in Clients |-> "idle"]
    /\ semCalls = <<>>

SemaphoreFrame ==
    UNCHANGED <<config, batches, pool, max, results, completed, failed, task, invoked,
                calls, thrown, releases, emitted, returned, reduceVars, items, batchSize,
                splitResult, templateVars, parseVars, inputVars, renderVars>>

(* acquire, lines 49-57 *)
Acquire(c) ==
    /\ clients[c] = "idle"
    /\ Len(semCalls) < MaxCalls
    /\ IF CanGrant(current, max)
       THEN /\ current' = current + 1
            /\ queue' = queue
            /\ clients' = [clients EXCEPT ![c] = "holding"]
       ELSE /\ current' = current
            /\ queue' = Append(queue, c)
            /\ clients' = [clients EXCEPT ![c] = "waiting"]
    /\ semCalls' = Append(semCalls, <<"acquire", c>>)
    /\ SemaphoreFrame

(* release, lines 59-66, called by a holder *)
Release(c) ==
    /\ clients[c] = "holding"
    /\ Len(semCalls) < MaxCalls
    /\ current' = ReleaseCurrent(current, queue)
    /\ queue' = ReleaseQueue(queue)
    /\ clients' = [k \in Clients |->
                     IF k = c THEN "idle"
                     ELSE IF queue # <<>> /\ k = NextWaiter(queue) THEN "holding"
                     ELSE clients[k]]
    /\ semCalls' = Append(semCalls, <<"release", c>>)
    /\ SemaphoreFrame

NextSemaphore ==
    \/ \E c \in Clients : Acquire(c)
    \/ \E c \in Clients : Release(c)

SpecSemaphore == InitSemaphore /\ [][NextSemaphore]_vars

(* C32: after any sequence of acquire and release calls, release called    *)
(* by holders only, the slots in use are between 0 and max and are the     *)
(* slots of the holders, and callers wait only while all slots are in use  *)
C32_SemaphoreInvariant ==
    /\ 0 <= current
    /\ current <= max
    /\ queue # <<>> => current = max
    /\ current = Cardinality({c \in DOMAIN clients : clients[c] = "holding"})
    /\ Len(queue) = Cardinality({c \in DOMAIN clients : clients[c] = "waiting"})

C32_Witness ==
    /\ Len(queue) = 2
    /\ current = max
    /\ \E k \in 1..Len(semCalls) : semCalls[k][1] = "release"
    /\ \E c \in DOMAIN clients :
          /\ clients[c] = "holding"
          /\ \E k \in 1..Len(semCalls) : semCalls[k] = <<"release", c>>

(* ---------- worker invocations over a whole job ---------- *)
(* the reducer of a job whose configuration sets a concurrency *)
InitJobReduce ==
    /\ batches = <<>>
    /\ \E c \in 1..MaxConcurrency : config = [concurrency |-> c, hasCallback |-> FALSE]
    /\ pool = [pc |-> "idle", next |-> 0]
    /\ max = 0
    /\ current = 0
    /\ queue = <<>>
    /\ results = <<>>
    /\ completed = 0
    /\ failed = 0
    /\ task = <<>>
    /\ invoked = <<>>
    /\ calls = <<>>
    /\ thrown = <<>>
    /\ releases = <<>>
    /\ emitted = {}
    /\ returned = <<>>
    /\ SplitIdle
    /\ \E f \in Fanins, st \in Strategies \cup {Undefined}, custom \in BOOLEAN :
          reduceConfig = [strategy |-> st, prompt |-> custom, fanin |-> f]
    /\ \E n \in 0..(reduceConfig.fanin * MaxGroups), first \in FirstLens :
          batchResults = [k \in 1..n |-> <<Text(k, IF k = 1 THEN first ELSE ShortLen)>>]
    /\ red = [pc |-> "idle", input |-> <<>>, level |-> 0, depth |-> 0]
    /\ groups = <<>>
    /\ inflight = {}
    /\ reduceCalls = <<>>
    /\ reduceResult = <<>>
    /\ reduceEmitted = {}

(* a job runs the pool and then the reducer, each under the job's config *)
InitJob == Init \/ InitJobReduce

SpecJob == InitJob /\ [][NextWorkers]_vars

(* invokeAgent calls in flight: those of the batches and those of the reducer *)
InFlight == Cardinality({i \in Ids : task[i].pc = "invoking"}) + Cardinality(inflight)

(* C36: at every moment of a job at most `concurrency` worker invocations  *)
(* are in flight, those of hierarchical reduction included                 *)
C36_ConcurrencyBoundsInvocations ==
    InFlight <= EffectiveConcurrency(config.concurrency)

(* position of the first token of section i in a concatenation of parts *)
RECURSIVE SectionStart(_, _)
SectionStart(parts, i) ==
    IF i = 1 THEN 1
    ELSE SectionStart(parts, i - 1) + 1 + Len(parts[i - 1]) + 1

(* C37: a failed summarize pass returns the concatenation of the inputs of *)
(* its own node; after a hierarchical level these are the G group          *)
(* summaries, each under its 'Batch i of G' heading, and not the original  *)
(* batch results                                                           *)
C37_FallbackAtNode ==
    \A k \in CallsOfKind("summarize") :
        reduceCalls[k].outcome = "err" =>
            /\ red.pc = "returned"
            /\ red.input = reduceCalls[k].input
            /\ groups = <<>> => reduceCalls[k].input = batchResults
            /\ groups # <<>> =>
                  LET G == Len(groups) IN
                  /\ G >= 2
                  /\ reduceCalls[k].input = GroupSummaries(groups)
                  /\ \A i \in 1..G :
                        LET at == SectionStart(GroupSummaries(groups), i) IN
                        /\ reduceResult[at] = Heading(i, G)
                        /\ \A j \in 1..Len(groups[i].summary) :
                              reduceResult[at + j] = groups[i].summary[j]
                        /\ i < G => reduceResult[at + Len(groups[i].summary) + 1] = Divider
                  /\ Len(reduceResult) =
                        SectionStart(GroupSummaries(groups), G) + Len(groups[G].summary)
                  /\ reduceResult # reduceConcatenate(batchResults)
            /\ Len(reduceCalls[k].input) = 1 => reduceResult = reduceCalls[k].input[1]

C37_Witness ==
    /\ red.pc = "returned"
    /\ reduceConfig.strategy = "hierarchical"
    /\ Len(groups) = 2
    /\ Len(batchResults) > Len(groups)
    /\ groups[1].state = "ok"
    /\ groups[2].state = "failed"
    /\ \E k \in CallsOfKind("summarize") : reduceCalls[k].outcome = "err"

(* position of the first token of one of the given kinds in a prompt *)
FirstOf(prompt, kinds) ==
    CHOOSE k \in 1..Len(prompt) :
        /\ prompt[k].t \in kinds
        /\ \A j \in 1..(k - 1) : prompt[j].t \notin kinds

(* C38: every reduce prompt is, in this order, the instruction (the custom *)
(* prompt if configured, else the default instruction), the context        *)
(* sentence, the 'Original task' line, a divider and the combined content  *)
C38_PromptOrder ==
    \A k \in DOMAIN reduceCalls :
        LET prompt == reduceCalls[k].prompt
            instruction == FirstOf(prompt, {IF reduceConfig.prompt THEN "user_prompt"
                                            ELSE "default_instruction"})
            context == FirstOf(prompt, {"context_top", "context_group"})
            originalTask == FirstOf(prompt, {"original_task"})
            divider == FirstOf(prompt, {"divider"})
        IN  /\ instruction = 1
            /\ instruction < context
            /\ context < originalTask
            /\ originalTask < divider
            /\ SubSeq(prompt, divider + 1, Len(prompt)) = reduceConcatenate(reduceCalls[k].input)

(* ---------- worker-pool.ts: renderBatchPrompt ---------- *)
(* A text is a sequence of tokens; a placeholder is one token, and so is   *)
(* the replacement pattern $& of String.prototype.replace.                 *)
MaxPromptLen == 2
MaxRenderItems == 2

(* lines 33-39: the seven placeholders, in the order they are replaced *)
Placeholders ==
    <<"{{items}}", "{{items_json}}", "{{batch_index}}", "{{batch_number}}",
      "{{total_batches}}", "{{batch_size}}", "{{user_message}}">>

PlaceholderSet == {Placeholders[k] : k \in DOMAIN Placeholders}

MatchedText == "$&"

PromptTokens == {"w"} \cup PlaceholderSet

ItemTexts == {"w", MatchedText, "{{batch_index}}", "{{user_message}}"}

MessageTexts == {<<"w">>, <<MatchedText>>, <<"{{items}}">>, <<"{{batch_size}}">>}

(* line 33: batch.items.join('\n') *)
RECURSIVE JoinLines(_)
JoinLines(its) ==
    IF its = <<>> THEN <<>>
    ELSE IF Len(its) = 1 THEN <<its[1]>>
    ELSE <<its[1], "\n">> \o JoinLines(Tail(its))

(* line 34: JSON.stringify(batch.items, null, 2); the item texts need no escapes *)
RECURSIVE StringifyElements(_)
StringifyElements(its) ==
    IF Len(its) = 1 THEN <<"\"", its[1], "\"">>
    ELSE <<"\"", its[1], "\"", ",", "\n  ">> \o StringifyElements(Tail(its))

JSONStringify(its) ==
    IF its = <<>> THEN <<"[]">>
    ELSE <<"[", "\n  ">> \o StringifyElements(its) \o <<"\n", "]">>

(* String.prototype.replace with a string as replacement: $& in it stands  *)
(* for the matched text                                                    *)
GetSubstitution(replacement, matched) ==
    [k \in DOMAIN replacement |->
        IF replacement[k] = MatchedText THEN matched ELSE replacement[k]]

(* text.replace(/placeholder/g, replacement): one pass over the text *)
RECURSIVE ReplaceAll(_, _, _)
ReplaceAll(text, placeholder, replacement) ==
    IF text = <<>> THEN <<>>
    ELSE (IF Head(text) = placeholder
          THEN GetSubstitution(replacement, placeholder)
          ELSE <<Head(text)>>) \o ReplaceAll(Tail(text), placeholder, replacement)

(* the value of each placeholder, lines 33-39 *)
PlaceholderValue(name, its, index, totalBatches, msg) ==
    CASE name = "{{items}}" -> JoinLines(its)
      [] name = "{{items_json}}" -> JSONStringify(its)
      [] name = "{{batch_index}}" -> <<ToString(index)>>
      [] name = "{{batch_number}}" -> <<ToString(index + 1)>>
      [] name = "{{total_batches}}" -> <<ToString(totalBatches)>>
      [] name = "{{batch_size}}" -> <<ToString(Len(its))>>
      [] name = "{{user_message}}" -> msg

(* the chain of replace calls, from the k-th on *)
RECURSIVE ReplaceChain(_, _, _, _, _, _)
ReplaceChain(text, k, its, index, totalBatches, msg) ==
    IF k > Len(Placeholders) THEN text
    ELSE ReplaceChain(ReplaceAll(text, Placeholders[k],
                                 PlaceholderValue(Placeholders[k], its, index, totalBatches, msg)),
                      k + 1, its, index, totalBatches, msg)

(* renderBatchPrompt, lines 26-40 *)
renderBatchPrompt(tpl, its, index, totalBatches, msg) ==
    ReplaceChain(tpl, 1, its, index, totalBatches, msg)

InitRender ==
    /\ PoolIdle
    /\ ReduceIdle
    /\ items = <<>>
    /\ batchSize = 0
    /\ splitResult = [done |-> FALSE, out |-> <<>>]
    /\ TemplateIdle
    /\ ParseIdle
    /\ InputIdle
    /\ SemaphoreIdle
    /\ \E tpl \in SeqsUpTo(PromptTokens, MaxPromptLen),
          its \in SeqsUpTo(ItemTexts, MaxRenderItems),
          index \in 0..1, msg \in MessageTexts :
          renderArgs = [template |-> tpl, items |-> its, index |-> index,
                        totalBatches |-> 2, userMessage |-> msg]
    /\ rendered = [done |-> FALSE, out |-> <<>>]

RenderCall ==
    /\ ~rendered.done
    /\ rendered' = [done |-> TRUE,
                    out |-> renderBatchPrompt(renderArgs.template, renderArgs.items,
                                              renderArgs.index, renderArgs.totalBatches,
                                              renderArgs.userMessage)]
    /\ UNCHANGED <<renderArgs, poolVars, reduceVars, items, batchSize, splitResult,
                   templateVars, parseVars, inputVars, semVars>>

NextRender == RenderCall

SpecRender == InitRender /\ [][NextRender]_vars

(* every placeholder of the template replaced by its value at once, the    *)
(* values taken as they are                                                *)
RECURSIVE SimultaneousSubstitution(_, _, _, _, _)
SimultaneousSubstitution(tpl, its, index, totalBatches, msg) ==
    IF tpl = <<>> THEN <<>>
    ELSE (IF Head(tpl) \in PlaceholderSet
          THEN PlaceholderValue(Head(tpl), its, index, totalBatches, msg)
          ELSE <<Head(tpl)>>)
         \o SimultaneousSubstitution(Tail(tpl), its, index, totalBatches, msg)

(* C40: the prompt is the template with every occurrence of every          *)
(* placeholder replaced by its value in one simultaneous substitution:     *)
(* placeholder text inside the items or the user message reaches the       *)
(* prompt as it is                                                         *)
C40_SimultaneousSubstitution ==
    rendered.done =>
        rendered.out = SimultaneousSubstitution(renderArgs.template, renderArgs.items,
                                                renderArgs.index, renderArgs.totalBatches,
                                                renderArgs.userMessage)
====
